---------------------------- MODULE Spec2Model ----------------------------
(***************************************************************************)
(* A model of the RNG game of the task-manager application: the tier       *)
(* resolver (getTier), the progression engine (levels, upgrades), the item *)
(* generator, the enemy lists, the combat resolver and the sell area of    *)
(* GameCore (src/game-config.js), the enemy system (src/unnamed/part_000)  *)
(* and the UI handlers that drive them (src/game-ui.js).                   *)
(*                                                                         *)
(* Number representation.  The program computes in JavaScript doubles; the *)
(* model computes in integers:                                             *)
(*   - money and Price are held in cents (1/100),                          *)
(*   - exp is held in units of 1/100000, the exact unit of a price in      *)
(*     cents times a rarity EXP multiplier (two decimals) times a mold EXP *)
(*     multiplier (one decimal),                                           *)
(*   - multipliers are held in hundredths (the program rounds them to two  *)
(*     decimals), Damage in hundredths and Defense in thousandths,         *)
(*   - MAXIMUM_VALUE is scaled from 10^20 to 10^9 so that rolls and        *)
(*     thresholds are machine integers; every threshold stays distinct and *)
(*     positive, as in the program.                                        *)
(* Real powers and logarithms are tabulated from the program's formulas.   *)
(***************************************************************************)
EXTENDS Integers, Sequences, FiniteSets, TLC

(***************************************************************************)
(* Bounds of the model.                                                    *)
(***************************************************************************)
MaxItems == 2        \* items the item timer creates where a UI acts on them
MaxQueued == 3       \* items the item timer creates where only timers act
MaxTime == 31        \* the clock stops advancing here (seconds)
MaxAmount == 2       \* largest upgrade count typed into an upgrade input
MaxEnemies == 2      \* enemies spawned in one behaviour
MaxEntries == 3      \* sell-area entries created in one behaviour

(***************************************************************************)
(* Configuration tables (src/game-config.js, src/unnamed/part_000).        *)
(***************************************************************************)
MAXIMUM_VALUE == 10^9

\* Rows of RARITY_TIERS.  div2 is twice the divisor of MAXIMUM_VALUE (the
\* divisor 1.5 becomes 3), price the price multiplier in thousandths, dmg
\* the damage multiplier in hundredths, expm the EXP multiplier in hundredths.
RARITY_TIERS ==
    << [name |-> "Zenith",      div2 |-> 40000000, price |-> 10000000, dmg |-> 50000, expm |-> 10000],
       [name |-> "Universal",   div2 |-> 1900000,  price |-> 4000000,  dmg |-> 20000, expm |-> 5000],
       [name |-> "Cosmic",      div2 |-> 1300000,  price |-> 1000000,  dmg |-> 15000, expm |-> 2000],
       [name |-> "Divine",      div2 |-> 800000,   price |-> 750000,   dmg |-> 10000, expm |-> 1300],
       [name |-> "Mythical+2",  div2 |-> 240000,   price |-> 500000,   dmg |-> 8000,  expm |-> 1000],
       [name |-> "Mythical+1",  div2 |-> 140000,   price |-> 550000,   dmg |-> 6500,  expm |-> 775],
       [name |-> "Mythical",    div2 |-> 50000,    price |-> 300000,   dmg |-> 4000,  expm |-> 600],
       [name |-> "Legendary+2", div2 |-> 20000,    price |-> 100000,   dmg |-> 2725,  expm |-> 450],
       [name |-> "Legendary+1", div2 |-> 10000,    price |-> 75000,    dmg |-> 2000,  expm |-> 400],
       [name |-> "Legendary",   div2 |-> 2500,     price |-> 50000,    dmg |-> 1500,  expm |-> 325],
       [name |-> "Epic+2",      div2 |-> 1400,     price |-> 35000,    dmg |-> 2600,  expm |-> 250],
       [name |-> "Epic+1",      div2 |-> 550,      price |-> 25000,    dmg |-> 2025,  expm |-> 225],
       [name |-> "Epic",        div2 |-> 300,      price |-> 17750,    dmg |-> 1500,  expm |-> 210],
       [name |-> "Rare+2",      div2 |-> 200,      price |-> 10000,    dmg |-> 1000,  expm |-> 180],
       [name |-> "Rare+1",      div2 |-> 100,      price |-> 8600,     dmg |-> 650,   expm |-> 165],
       [name |-> "Rare",        div2 |-> 90,       price |-> 7000,     dmg |-> 400,   expm |-> 150],
       [name |-> "Uncommon+2",  div2 |-> 40,       price |-> 5500,     dmg |-> 200,   expm |-> 120],
       [name |-> "Uncommon+1",  div2 |-> 20,       price |-> 4200,     dmg |-> 170,   expm |-> 115],
       [name |-> "Uncommon",    div2 |-> 12,       price |-> 3750,     dmg |-> 150,   expm |-> 110],
       [name |-> "Common+2",    div2 |-> 4,        price |-> 2000,     dmg |-> 125,   expm |-> 105],
       [name |-> "Common+1",    div2 |-> 3,        price |-> 1875,     dmg |-> 110,   expm |-> 103],
       [name |-> "Common",      div2 |-> 2,        price |-> 1500,     dmg |-> 100,   expm |-> 100] >>

\* Rows of MOLD_TIERS.  price is the price multiplier in hundredths, expm the
\* EXP multiplier in tenths.
MOLD_TIERS ==
    << [name |-> "Heavenly", div2 |-> 2500000, price |-> 62500, expm |-> 3500],
       [name |-> "Hallowed", div2 |-> 1000000, price |-> 20000, expm |-> 1200],
       [name |-> "Onyx",     div2 |-> 180000,  price |-> 9000,  expm |-> 500],
       [name |-> "Diamond",  div2 |-> 50000,   price |-> 5000,  expm |-> 200],
       [name |-> "Amethyst", div2 |-> 10000,   price |-> 1500,  expm |-> 95],
       [name |-> "Gold",     div2 |-> 1500,    price |-> 900,   expm |-> 60],
       [name |-> "Silver",   div2 |-> 200,     price |-> 500,   expm |-> 35],
       [name |-> "Iron",     div2 |-> 40,      price |-> 300,   expm |-> 20],
       [name |-> "Bronze",   div2 |-> 10,      price |-> 175,   expm |-> 15],
       [name |-> "Copper",   div2 |-> 2,       price |-> 120,   expm |-> 12] >>

\* tier[1] of a row: Math.floor(MAXIMUM_VALUE / divisor).
Threshold(row) == (2 * MAXIMUM_VALUE) \div row.div2

(***************************************************************************)
(* getTier (src/game-config.js:59-89).                                     *)
(***************************************************************************)
\* The range test with the upper bound excluded: a boundary slip.
TierMatchesExclusive(roll, prev, threshold) == prev < roll /\ roll < threshold

\* The test of line 69.
TierMatches(roll, prev, threshold) == prev < roll /\ roll <= threshold

\* The result when no row matches (lines 80-88): the last row.
TierFallback(roll, tiers) ==
    [ tier |-> tiers[Len(tiers)].name,
      rng_roll |-> roll,
      range_start |-> IF Len(tiers) > 1 THEN Threshold(tiers[Len(tiers) - 1]) ELSE 0,
      range_end |-> Threshold(tiers[Len(tiers)]),
      index |-> Len(tiers),
      matched |-> FALSE ]

\* The scan of lines 62-78, from row i on.
RECURSIVE TierScan(_, _, _)
TierScan(roll, tiers, i) ==
    IF i > Len(tiers)
    THEN TierFallback(roll, tiers)
    ELSE LET prev == IF i > 1 THEN Threshold(tiers[i - 1]) ELSE 0
             threshold == Threshold(tiers[i])
         IN  IF TierMatches(roll, prev, threshold)
             THEN [ tier |-> tiers[i].name,
                    rng_roll |-> roll,
                    range_start |-> prev,
                    range_end |-> threshold,
                    index |-> i,
                    matched |-> TRUE ]
             ELSE TierScan(roll, tiers, i + 1)

\* getTier(roll, tiers, luckMultiplier).  luckMultiplier only feeds
\* totalRange, which the function never reads.  index stands for the row's
\* `values`; matched tells the scan's return from the fallback's.
getTier(roll, tiers, luckMultiplier) == TierScan(roll, tiers, 1)


(***************************************************************************)
(* Arithmetic helpers.                                                     *)
(***************************************************************************)
Max(a, b) == IF a >= b THEN a ELSE b

\* Math.round of num / den for num >= 0, den > 0 (halves round up).
RoundDiv(num, den) == (2 * num + den) \div (2 * den)

\* floor(100 * a / m) for 0 < m < 10^7, computed without leaving 32 bits.
FloorTimes100Div(a, m) == (a \div m) * 100 + ((a % m) * 100) \div m

\* a / b in hundredths (floor); exact when b <= 10^7, and within one
\* hundredth above that.
Ratio100(a, b) ==
    IF b <= 10^7
    THEN FloorTimes100Div(a, b)
    ELSE (a \div b) * 100 + (a % b) \div (b \div 100)

Range(s) == { s[i] : i \in 1..Len(s) }

RECURSIVE SumSeq(_)
SumSeq(s) == IF s = << >> THEN 0 ELSE Head(s) + SumSeq(Tail(s))

\* A splice without its delete count: everything from i on is removed.
RemoveFrom(s, i) == SubSeq(s, 1, i - 1)

\* s without its i-th element (Array.splice(i, 1)), i in 1..Len(s).
RemoveAt(s, i) == SubSeq(s, 1, i - 1) \o SubSeq(s, i + 1, Len(s))

\* Array.findIndex, 1-based, given the set of the indices whose element
\* satisfies the test: the first of them, 0 when there is none.
FindIndex(matching) ==
    IF matching = { } THEN 0
    ELSE CHOOSE i \in matching : \A j \in matching : i <= j

(***************************************************************************)
(* Units.                                                                  *)
(***************************************************************************)
Cent == 10^2         \* money units per dollar
ExpUnit == 10^5      \* exp units per experience point

(***************************************************************************)
(* Progression engine (src/game-config.js:184-234, 413-459).               *)
(***************************************************************************)
\* Math.floor(100 * Math.pow(level, 1.05)) for level 1..20.
RequiredExpTable ==
    << 100, 207, 316, 428, 541, 656, 771, 887, 1004, 1122,
       1240, 1358, 1477, 1597, 1717, 1837, 1958, 2079, 2201, 2323 >>

\* requiredExp(level), in exp units.
requiredExp(lv) == RequiredExpTable[lv] * ExpUnit

\* The loop test of checkLevelUp (line 218).
LevelUpDue(e, lv) == e >= requiredExp(lv)

\* The loop of checkLevelUp as an if: at most one level per award.
checkLevelUpOnce(lv, e, gained) ==
    IF LevelUpDue(e, lv)
    THEN [ level |-> lv + 1, exp |-> e - requiredExp(lv), levelsGained |-> gained + 1 ]
    ELSE [ level |-> lv, exp |-> e, levelsGained |-> gained ]

\* The loop of checkLevelUp with the experience reset on a level-up in
\* place of the requirement being taken out of it.
RECURSIVE checkLevelUpReset(_, _, _)
checkLevelUpReset(lv, e, gained) ==
    IF LevelUpDue(e, lv)
    THEN checkLevelUpReset(lv + 1, 0, gained + 1)
    ELSE [ level |-> lv, exp |-> e, levelsGained |-> gained ]

\* checkLevelUp: the while loop of lines 217-222 from (lv, e) with
\* `gained` levels counted so far; the result is the final level, the
\* final exp and levelsGained.
RECURSIVE checkLevelUpLoop(_, _, _)
checkLevelUpLoop(lv, e, gained) ==
    IF LevelUpDue(e, lv)
    THEN checkLevelUpLoop(lv + 1, e - requiredExp(lv), gained + 1)
    ELSE [ level |-> lv, exp |-> e, levelsGained |-> gained ]

checkLevelUp(lv, e) == checkLevelUpLoop(lv, e, 0)

\* Math.round(Math.pow(L, 1.9)) + 3 for L 1..20: the mold cost of
\* recalculate (line 185) and of upgradeMold (lines 419, 430).
MoldCostTable ==
    << 4, 7, 11, 17, 24, 33, 43, 55, 68, 82,
       98, 115, 134, 154, 175, 197, 221, 246, 272, 299 >>

\* Math.round(Math.pow(L, 2.4)) + 5 for L 1..20: the luck cost of
\* recalculate (line 186).
LuckCostRecalcTable ==
    << 6, 10, 19, 33, 53, 79, 112, 152, 200, 256,
       321, 394, 476, 568, 670, 781, 903, 1035, 1177, 1331 >>

\* Math.round(Math.pow(L, 2.1)) + 4 for L 1..20: the luck cost of
\* upgradeLuck (lines 443, 454).
LuckCostUpgradeTable ==
    << 5, 8, 14, 22, 33, 47, 64, 83, 105, 130,
       158, 189, 222, 259, 299, 342, 388, 437, 489, 544 >>

MoldCostAt(L) == MoldCostTable[L] * Cent
LuckCostRecalcAt(L) == LuckCostRecalcTable[L] * Cent
LuckCostUpgradeAt(L) == LuckCostUpgradeTable[L] * Cent

\* Math.round(Math.log1p(L) * 10^6) for L 1..20.
Log1pTable ==
    << 693147, 1098612, 1386294, 1609438, 1791759, 1945910, 2079442,
       2197225, 2302585, 2397895, 2484907, 2564949, 2639057, 2708050,
       2772589, 2833213, 2890372, 2944439, 2995732, 3044522 >>

\* The multiplier curve of updateLuckMult for an upgrade level L <= 50 at
\* player level lv, in hundredths: lines 198/204 (PRE50_OFFSET 1.05,
\* levelMult = 1 + lv/100, rounded to two decimals) then lines 209/210
\* (times getLevelScale() = 1 + lv * 0.01, rounded to two decimals).  The
\* integer form agrees with the double arithmetic for every L, lv <= 20.
MultiplierCurve(L, lv) ==
    LET first == (10^8 + (Log1pTable[L] - 1050000) * (100 + lv) + 500000) \div 10^6
    IN  (first * (100 + lv) + 50) \div 100

(***************************************************************************)
(* Item generator, pure part (src/game-config.js:46-56, 123-133, 237-318). *)
(***************************************************************************)
\* WEAPON_TYPES: type, base damage, base defense, mold level required.
WEAPON_TYPES ==
    << [name |-> "Sword",   dmg |-> 4,  def |-> 10, mold |-> 0],
       [name |-> "Sniper",  dmg |-> 20, def |-> 5,  mold |-> 10],
       [name |-> "Bomb",    dmg |-> 10, def |-> 6,  mold |-> 20],
       [name |-> "Molotov", dmg |-> 10, def |-> 6,  mold |-> 50],
       [name |-> "Car",     dmg |-> 10, def |-> 6,  mold |-> 50],
       [name |-> "Scythe",  dmg |-> 10, def |-> 6,  mold |-> 100],
       [name |-> "Train",   dmg |-> 10, def |-> 6,  mold |-> 100],
       [name |-> "Lance",   dmg |-> 10, def |-> 6,  mold |-> 250] >>

\* getWeapon / the filter of enemyLoot: the weapons unlocked at moldLevel.
AvailableWeapons(moldLevel) ==
    { i \in 1..Len(WEAPON_TYPES) : WEAPON_TYPES[i].mold <= moldLevel }

\* basePrice * (rarity price multiplier * 0.95) * getRarityCostScaling(rarity)
\* of itemGen (lines 279-283) per RARITY_TIERS row, in 1/10000 dollars:
\* 4.5 * (price * 0.95) * min(1 + (23 - row)^1.25 / 160, 1.85).
ItemPriceFactor ==
    << 554804715, 219045227, 54050655, 40011626, 26328096, 28585209,
       15390000, 5063733, 3748922, 2467273, 1705113, 1202563, 843149,
       469150, 398566, 320545, 248925, 187940, 165980, 87610, 81348, 64526 >>

\* 5 * priceMult * getRarityCostScaling(rarity) of enemyLoot (line 351) per
\* RARITY_TIERS row, in 1/10000 dollars.
LootPriceFactor ==
    << 648894403, 256193248, 63217141, 46797224, 30793095, 33432993,
       18000000, 5922495, 4384704, 2885700, 1994284, 1406506, 986139,
       548714, 466159, 374907, 291140, 219813, 194129, 102468, 95144, 75469 >>

\* The multiplier ignored: every roll range is the whole of MAXIMUM_VALUE.
MaxRollFixed(mult100) == MAXIMUM_VALUE

\* Math.floor(MAXIMUM_VALUE / Math.max(1, mult)) for a multiplier in
\* hundredths (lines 238-239).
MaxRoll(mult100) == FloorTimes100Div(MAXIMUM_VALUE, Max(100, mult100))

\* The draws of Math.random the model follows: a roll of "1 in n" is the
\* largest roll whose odds maxRoll / roll are at least n.
RarityOdds == {1, 100}
MoldOdds == {1}
RollAtOdds(maxRoll, n) == Max(1, maxRoll \div n)

\* combinedActual of rngGen (lines 255-259), in tenths.
CombinedActual(maxRarityRoll, rarityRoll, maxMoldRoll, moldRoll) ==
    LET overallRarity == Ratio100(maxRarityRoll, rarityRoll)
        overallMold == Ratio100(maxMoldRoll, moldRoll)
        combined10 == RoundDiv(overallRarity * overallMold, 1000)
    IN  IF combined10 < 10000 THEN combined10 ELSE RoundDiv(combined10, 10) * 10

\* rarityExpMult / moldExpMult (lines 490-498): the row's EXP multiplier, 1
\* when the name is in no row (hundredths / tenths).
rarityExpMult(rarityName) ==
    LET i == FindIndex({ k \in 1..Len(RARITY_TIERS) : RARITY_TIERS[k].name = rarityName })
    IN  IF i > 0 THEN RARITY_TIERS[i].expm ELSE 100

moldExpMult(moldName) ==
    LET i == FindIndex({ k \in 1..Len(MOLD_TIERS) : MOLD_TIERS[k].name = moldName })
    IN  IF i > 0 THEN MOLD_TIERS[i].expm ELSE 10

\* item.Price * expMult of processSellArea (lines 471-473), in exp units.
SaleExp(item) == item.Price * rarityExpMult(item.Rarity) * moldExpMult(item.Mold)

(***************************************************************************)
(* Program constants.                                                      *)
(***************************************************************************)
SellTimer == 30              \* timer of a sell-area entry, seconds
DefaultAutoSell == 100       \* GameSettings.auto_sell_threshold

(***************************************************************************)
(* State.                                                                  *)
(***************************************************************************)
VARIABLES
    level,               \* gameCore.player.level
    exp,                 \* gameCore.player.exp
    equipped,            \* gameCore.player.equipped: << >> (null) or << item >>
    money,               \* gameCore.money
    item_storage,        \* gameCore.item_storage
    recycled_ids,        \* gameCore.recycled_ids
    mold_level,          \* gameCore.mold_level
    luck_level,          \* gameCore.luck_level
    mold_cost,           \* gameCore.mold_cost
    luck_cost,           \* gameCore.luck_cost
    mold_mult,           \* gameCore.mold_mult
    luck_multiplier,     \* gameCore.luck_multiplier
    item_id_counter,     \* gameCore.item_id_counter
    sell_area,           \* gameCore.sell_area
    spawned_enemies,     \* gameCore.spawned_enemies, per area name
    auto_sell_threshold, \* gameSettings.auto_sell_threshold
    now,                 \* Date.now() / 1000
    pendingSell,         \* the onConfirm closure of sellItem held by the
                         \* confirmation modal: << >> or << [itemId, item] >>
    combatModal,         \* the enemy list rendered by enterArea: << >> or
                         \* << [area, listed] >>
    nextUid,             \* identity of the next item object created
    nextEid,             \* identity of the next sell-area entry created
    nextEnemy,           \* identity of the next enemy object created
    probe,               \* what a specification follows beside the game: the
                         \* argument of a function under test, a call in
                         \* progress, the contents of localStorage
    ret                  \* the last operation, its argument and its result

coreVars == << level, exp, equipped, money, item_storage, recycled_ids,
               mold_level, luck_level, mold_cost, luck_cost, mold_mult,
               luck_multiplier, item_id_counter, sell_area, spawned_enemies >>
vars == << level, exp, equipped, money, item_storage, recycled_ids,
           mold_level, luck_level, mold_cost, luck_cost, mold_mult,
           luck_multiplier, item_id_counter, sell_area, spawned_enemies,
           auto_sell_threshold, now, pendingSell, combatModal, nextUid,
           nextEid, nextEnemy, probe, ret >>

\* What an operation leaves in ret.  calls lists the calls of getTier the
\* operation made: for each the roll passed, the largest roll the
\* multiplier passed allows, floor(MAXIMUM_VALUE / max(1, multiplier)), and
\* whether a row matched.
ResultCalls(op, arg, success, out, calls) ==
    [ op |-> op, arg |-> arg, success |-> success, out |-> out, calls |-> calls ]

Result(op, arg, success, out) == ResultCalls(op, arg, success, out, << >>)

\* One call getTier(roll, tiers, multiplier), the multiplier in hundredths.
GetTierCall(roll, tiers, mult100) ==
    [ roll |-> roll,
      limit |-> FloorTimes100Div(MAXIMUM_VALUE, Max(100, mult100)),
      matched |-> getTier(roll, tiers, mult100).matched ]

\* The areas whose enemy lists the model follows.
AreaNames == { "Beginner Hall" }

\* The GameCore constructor (lines 136-177) with a fresh GameSettings, no
\* saved game, the clock at 0 and no modal open.
GameInit ==
    /\ level = 1
    /\ exp = 0
    /\ equipped = << >>
    /\ money = 0
    /\ item_storage = << >>
    /\ recycled_ids = << >>
    /\ mold_level = 1
    /\ luck_level = 1
    /\ mold_cost = MoldCostAt(1)
    /\ luck_cost = LuckCostRecalcAt(1)
    /\ mold_mult = MultiplierCurve(1, 1)
    /\ luck_multiplier = MultiplierCurve(1, 1)
    /\ item_id_counter = 0
    /\ sell_area = << >>
    /\ spawned_enemies = [ a \in AreaNames |-> << >> ]
    /\ auto_sell_threshold = DefaultAutoSell
    /\ now = 0
    /\ pendingSell = << >>
    /\ combatModal = << >>
    /\ nextUid = 0
    /\ nextEid = 0
    /\ nextEnemy = 0
    /\ probe = << >>
    /\ ret = Result("init", << >>, TRUE, << >>)

(***************************************************************************)
(* Item generation (src/game-config.js:271-318).                           *)
(***************************************************************************)
\* An ID always taken from the counter: the free list ignored.
AllocateIdFresh(recycled, counter) ==
    [ id |-> counter, recycled |-> recycled, counter |-> counter + 1 ]

\* Lines 288-294 (and 337-343 of enemyLoot): pop a recycled ID, else take
\* the counter and increment it.
AllocateId(recycled, counter) ==
    IF Len(recycled) > 0
    THEN [ id |-> recycled[Len(recycled)],
           recycled |-> SubSeq(recycled, 1, Len(recycled) - 1),
           counter |-> counter ]
    ELSE [ id |-> counter, recycled |-> recycled, counter |-> counter + 1 ]

\* itemInfo of lines 296-305.  uid is the object's identity.
MakeItem(uid, id, w, rarityResult, moldResult, combinedActual) ==
    [ uid |-> uid,
      ID |-> id,
      RNG |-> combinedActual,
      Mold |-> moldResult.tier,
      Rarity |-> rarityResult.tier,
      Price |-> RoundDiv(ItemPriceFactor[rarityResult.index]
                             * MOLD_TIERS[moldResult.index].price, 10^4),
      Weapon |-> WEAPON_TYPES[w].name,
      Damage |-> WEAPON_TYPES[w].dmg * RARITY_TIERS[rarityResult.index].dmg,
      Defense |-> WEAPON_TYPES[w].def * RARITY_TIERS[rarityResult.index].dmg * 5 ]

\* A sell-area entry (lines 308-312, game-ui.js:646-650).  eid is the
\* entry object's identity.
MakeEntry(eid, item, t) ==
    [ eid |-> eid, item |-> item, time_added |-> t, timer |-> SellTimer ]

\* The routing test with <= for <.
AutoSellsInclusive(combinedActual, threshold) == combinedActual <= threshold * 10

\* The routing test of line 307: combinedActual (tenths) against
\* gameSettings.auto_sell_threshold.
AutoSells(combinedActual, threshold) == combinedActual < threshold * 10

\* The item-spawn timer's callback: itemGen(), while fewer than `limit`
\* items were created, with the rarity roll drawn at one of `rarityOdds`.
ItemGenOf(limit, rarityOdds) ==
    /\ nextUid < limit
    /\ nextEid < MaxEntries
    /\ \E w \in AvailableWeapons(mold_level), ro \in rarityOdds, mo \in MoldOdds :
         LET maxRarityRoll == MaxRoll(luck_multiplier)
             maxMoldRoll == MaxRoll(mold_mult)
             rarityRoll == RollAtOdds(maxRarityRoll, ro)
             moldRoll == RollAtOdds(maxMoldRoll, mo)
             rarityResult == getTier(rarityRoll, RARITY_TIERS, luck_multiplier)
             moldResult == getTier(moldRoll, MOLD_TIERS, mold_mult)
             combinedActual == CombinedActual(maxRarityRoll, rarityRoll,
                                              maxMoldRoll, moldRoll)
             alloc == AllocateId(recycled_ids, item_id_counter)
             itemInfo == MakeItem(nextUid, alloc.id, w, rarityResult, moldResult,
                                  combinedActual)
         IN  /\ recycled_ids' = alloc.recycled
             /\ item_id_counter' = alloc.counter
             /\ IF AutoSells(combinedActual, auto_sell_threshold)
                THEN /\ sell_area' = Append(sell_area, MakeEntry(nextEid, itemInfo, now))
                     /\ nextEid' = nextEid + 1
                     /\ UNCHANGED item_storage
                ELSE /\ item_storage' = Append(item_storage, itemInfo)
                     /\ UNCHANGED << sell_area, nextEid >>
             /\ nextUid' = nextUid + 1
             /\ ret' = ResultCalls("itemGen", << >>, TRUE, << itemInfo >>,
                      << GetTierCall(rarityRoll, RARITY_TIERS, luck_multiplier),
                         GetTierCall(moldRoll, MOLD_TIERS, mold_mult) >>)
    /\ UNCHANGED << level, exp, equipped, money, mold_level, luck_level, mold_cost,
                    luck_cost, mold_mult, luck_multiplier, spawned_enemies,
                    auto_sell_threshold, now, pendingSell, combatModal, nextEnemy, probe >>

(***************************************************************************)
(* The sell area (src/game-config.js:462-487).                             *)
(***************************************************************************)
\* The expiry test with > for >=.
ExpiredStrict(currentTime, entry) == currentTime > entry.time_added + entry.timer

\* The test of line 469.
Expired(currentTime, entry) == currentTime >= entry.time_added + entry.timer

\* A loop that leaves after its first sale.
NextIndexBreak(i, sold) == IF sold THEN 0 ELSE i - 1

\* The loop step of line 467: i-- whether or not entry i was sold.
NextIndex(i, sold) == i - 1

\* The for loop of lines 467-480 from index i down, on the loop's state st:
\* sell_area, money, exp, level, recycled_ids and soldItems.
RECURSIVE processSellLoop(_, _, _)
processSellLoop(i, currentTime, st) ==
    IF i < 1 THEN st
    ELSE LET entry == st.sell_area[i]
         IN  IF Expired(currentTime, entry)
             THEN LET item == entry.item
                      up == checkLevelUp(st.level, st.exp + SaleExp(item))
                  IN  processSellLoop(NextIndex(i, TRUE), currentTime,
                          [ sell_area |-> RemoveAt(st.sell_area, i),
                            money |-> st.money + item.Price,
                            exp |-> up.exp,
                            level |-> up.level,
                            recycled_ids |-> Append(st.recycled_ids, item.ID),
                            soldItems |-> Append(st.soldItems,
                                [ item |-> item, entry |-> entry,
                                  levelsGained |-> up.levelsGained ]) ])
             ELSE processSellLoop(NextIndex(i, FALSE), currentTime, st)

\* The sell-area timer's callback: processSellArea() at the current time.
\* checkLevelUp's updateLuckMult runs when a level was gained.  Each element
\* of soldItems also names the entry it was made from.
ProcessSellArea ==
    LET st == processSellLoop(Len(sell_area), now,
                  [ sell_area |-> sell_area, money |-> money, exp |-> exp,
                    level |-> level, recycled_ids |-> recycled_ids,
                    soldItems |-> << >> ])
    IN  /\ sell_area' = st.sell_area
        /\ money' = st.money
        /\ exp' = st.exp
        /\ level' = st.level
        /\ recycled_ids' = st.recycled_ids
        /\ luck_multiplier' = IF st.level > level
                              THEN MultiplierCurve(luck_level, st.level)
                              ELSE luck_multiplier
        /\ mold_mult' = IF st.level > level
                        THEN MultiplierCurve(mold_level, st.level)
                        ELSE mold_mult
        /\ ret' = Result("processSellArea", << now >>, TRUE, st.soldItems)
        /\ UNCHANGED << equipped, item_storage, mold_level, luck_level, mold_cost,
                        luck_cost, item_id_counter, spawned_enemies,
                        auto_sell_threshold, now, pendingSell, combatModal,
                        nextUid, nextEid, nextEnemy, probe >>

\* Time passes between two callbacks: the clock moves on by one of `steps`
\* seconds, up to `limit`.
AdvanceBy(steps, limit) ==
    /\ \E d \in steps : now + d <= limit /\ now' = now + d
    /\ ret' = Result("advance", << >>, TRUE, << >>)
    /\ UNCHANGED << coreVars, auto_sell_threshold, pendingSell, combatModal,
                    nextUid, nextEid, nextEnemy, probe >>

(***************************************************************************)
(* Inventory handlers of the UI (src/game-ui.js:607-669).  An id typed     *)
(* into onclick="...(id)" is any ID a rendered button may hold.            *)
(***************************************************************************)
ItemIds == 0..MaxItems

\* equipItem(itemId).  A call that returns early (no such item) leaves
\* every variable as it is, here and in unequipWeapon and sellItem.
EquipItem(itemId) ==
    LET itemIndex == FindIndex({ k \in 1..Len(item_storage) : item_storage[k].ID = itemId })
    IN  IF itemIndex = 0
        THEN UNCHANGED vars
        ELSE /\ item_storage' = RemoveAt(item_storage, itemIndex) \o equipped
             /\ equipped' = << item_storage[itemIndex] >>
             /\ ret' = Result("equipItem", << itemId >>, TRUE, << >>)
             /\ UNCHANGED << level, exp, money, recycled_ids, mold_level, luck_level,
                             mold_cost, luck_cost, mold_mult, luck_multiplier,
                             item_id_counter, sell_area, spawned_enemies,
                             auto_sell_threshold, now, pendingSell, combatModal,
                             nextUid, nextEid, nextEnemy, probe >>

\* unequipWeapon()
UnequipWeapon ==
    /\ IF equipped = << >>
       THEN UNCHANGED << equipped, item_storage, ret >>
       ELSE /\ item_storage' = item_storage \o equipped
            /\ equipped' = << >>
            /\ ret' = Result("unequipWeapon", << >>, TRUE, << >>)
    /\ UNCHANGED << level, exp, money, recycled_ids, mold_level, luck_level,
                    mold_cost, luck_cost, mold_mult, luck_multiplier,
                    item_id_counter, sell_area, spawned_enemies,
                    auto_sell_threshold, now, pendingSell, combatModal,
                    nextUid, nextEid, nextEnemy, probe >>

\* sellItem(itemId) up to showConfirmation: the item found is captured by
\* the onConfirm closure, which replaces the one the Yes button held.
SellItem(itemId) ==
    LET itemIndex == FindIndex({ k \in 1..Len(item_storage) : item_storage[k].ID = itemId })
    IN  /\ IF itemIndex = 0
           THEN UNCHANGED << pendingSell, ret >>
           ELSE /\ pendingSell' = << [ itemId |-> itemId, item |-> item_storage[itemIndex] ] >>
                /\ ret' = Result("sellItem", << itemId >>, TRUE, << >>)
        /\ UNCHANGED << coreVars, auto_sell_threshold, now, combatModal, nextUid, nextEid, nextEnemy, probe >>

\* The Yes button of the confirmation modal: the closure of lines 643-654.
ConfirmSell ==
    /\ pendingSell # << >>
    /\ nextEid < MaxEntries
    /\ LET itemId == pendingSell[1].itemId
           item == pendingSell[1].item
       IN  /\ item_storage' = SelectSeq(item_storage, LAMBDA i : i.ID # itemId)
           /\ sell_area' = Append(sell_area, MakeEntry(nextEid, item, now))
           /\ ret' = Result("confirmSell", << itemId >>, TRUE, << >>)
    /\ pendingSell' = << >>
    /\ nextEid' = nextEid + 1
    /\ UNCHANGED << level, exp, equipped, money, recycled_ids, mold_level,
                    luck_level, mold_cost, luck_cost, mold_mult, luck_multiplier,
                    item_id_counter, spawned_enemies, auto_sell_threshold, now,
                    combatModal, nextUid, nextEnemy, probe >>

\* The No button, the close button or a click outside the modal.
CancelSell ==
    /\ pendingSell # << >>
    /\ pendingSell' = << >>
    /\ ret' = Result("cancelSell", << >>, TRUE, << >>)
    /\ UNCHANGED << coreVars, auto_sell_threshold, now, combatModal, nextUid, nextEid, nextEnemy, probe >>

\* removeFromSellArea(itemId)
RemoveFromSellArea(itemId) ==
    LET entryIndex == FindIndex({ k \in 1..Len(sell_area) : sell_area[k].item.ID = itemId })
    IN  IF entryIndex = 0
        THEN /\ ret' = Result("removeFromSellArea", << itemId >>, FALSE, << >>)
             /\ UNCHANGED << coreVars, auto_sell_threshold, now, pendingSell,
                             combatModal, nextUid, nextEid, nextEnemy, probe >>
        ELSE /\ sell_area' = RemoveAt(sell_area, entryIndex)
             /\ item_storage' = Append(item_storage, sell_area[entryIndex].item)
             /\ ret' = Result("removeFromSellArea", << itemId >>, TRUE,
                              << sell_area[entryIndex].eid >>)
             /\ UNCHANGED << level, exp, equipped, money, recycled_ids, mold_level,
                             luck_level, mold_cost, luck_cost, mold_mult,
                             luck_multiplier, item_id_counter, spawned_enemies,
                             auto_sell_threshold, now, pendingSell, combatModal,
                             nextUid, nextEid, nextEnemy, probe >>

(***************************************************************************)
(* Settings (src/game-ui.js:779-791, GameSettings.setAutoSellThreshold).   *)
(***************************************************************************)
\* The values parseInt reads from the auto-sell input.
ThresholdInputs == { 0, 1, 101 }

\* updateAutoSellThreshold() with `value` parsed from the input.  An
\* invalid value only notifies.
UpdateAutoSellThreshold(value) ==
    IF value > 0
    THEN /\ auto_sell_threshold' = value
         /\ ret' = Result("updateAutoSellThreshold", << value >>, TRUE, << >>)
         /\ UNCHANGED << coreVars, now, pendingSell, combatModal, nextUid, nextEid,
                         nextEnemy, probe >>
    ELSE UNCHANGED vars

(***************************************************************************)
(* Upgrades (src/game-config.js:413-459, src/game-ui.js:443-467, 671-699). *)
(***************************************************************************)
\* totalCost of upgradeMold (lines 416-421): the sum over tempLevel.
RECURSIVE moldTotalCost(_, _)
moldTotalCost(tempLevel, amount) ==
    IF amount <= 0 THEN 0
    ELSE MoldCostAt(tempLevel) + moldTotalCost(tempLevel + 1, amount - 1)

\* totalCost of upgradeLuck (lines 440-445).
RECURSIVE luckTotalCost(_, _)
luckTotalCost(tempLevel, amount) ==
    IF amount <= 0 THEN 0
    ELSE LuckCostUpgradeAt(tempLevel) + luckTotalCost(tempLevel + 1, amount - 1)

\* The charging loop of upgradeMold (lines 427-431), `left` iterations to
\* go, on st = [level, money, cost].
RECURSIVE moldChargeLoop(_, _)
moldChargeLoop(left, st) ==
    IF left <= 0 THEN st
    ELSE moldChargeLoop(left - 1,
             [ level |-> st.level + 1,
               money |-> st.money - st.cost,
               cost |-> MoldCostAt(st.level + 1) ])

\* The charging loop of upgradeLuck (lines 451-455).
RECURSIVE luckChargeLoop(_, _)
luckChargeLoop(left, st) ==
    IF left <= 0 THEN st
    ELSE luckChargeLoop(left - 1,
             [ level |-> st.level + 1,
               money |-> st.money - st.cost,
               cost |-> LuckCostUpgradeAt(st.level + 1) ])

\* The funds test of lines 423 and 447, negated: the purchase goes on.
CanAfford(balance, totalCost) == ~(balance < totalCost)

\* upgradeMold(amount) on the current state: success, the checked total and
\* the track's level, the money and the stored cost afterwards.
upgradeMold(amount) ==
    LET totalCost == moldTotalCost(mold_level, amount)
        st == [ level |-> mold_level, money |-> money, cost |-> mold_cost ]
    IN  IF amount <= 0
        THEN [ success |-> FALSE, message |-> "Invalid amount.", totalCost |-> 0, st |-> st ]
        ELSE IF ~CanAfford(money, totalCost)
        THEN [ success |-> FALSE, message |-> "Not enough money!",
               totalCost |-> totalCost, st |-> st ]
        ELSE [ success |-> TRUE, message |-> "Upgraded mold level",
               totalCost |-> totalCost, st |-> moldChargeLoop(amount, st) ]

\* upgradeLuck(amount) on the current state.
upgradeLuck(amount) ==
    LET totalCost == luckTotalCost(luck_level, amount)
        st == [ level |-> luck_level, money |-> money, cost |-> luck_cost ]
    IN  IF amount <= 0
        THEN [ success |-> FALSE, message |-> "Invalid amount.", totalCost |-> 0, st |-> st ]
        ELSE IF ~CanAfford(money, totalCost)
        THEN [ success |-> FALSE, message |-> "Not enough money!",
               totalCost |-> totalCost, st |-> st ]
        ELSE [ success |-> TRUE, message |-> "Upgraded luck level",
               totalCost |-> totalCost, st |-> luckChargeLoop(amount, st) ]

\* What an upgrade input may hold; parseInt(input.value) || 1 turns 0 and
\* anything that is no number into 1.
InputValues == (0 - 1)..MaxAmount
ParseAmount(v) == IF v = 0 THEN 1 ELSE v

\* purchaseMoldUpgrades(): upgradeMold, and after a success showUpgrades(),
\* whose recalculate() rewrites both stored costs and the multipliers.
PurchaseMoldUpgrades(v) ==
    LET amount == ParseAmount(v)
        r == upgradeMold(amount)
    IN  /\ ret' = Result("upgradeMold", << amount >>, r.success,
                         [ message |-> r.message, totalCost |-> r.totalCost ])
        /\ IF r.success
           THEN /\ mold_level' = r.st.level
                /\ money' = r.st.money
                /\ mold_cost' = MoldCostAt(r.st.level)
                /\ luck_cost' = LuckCostRecalcAt(luck_level)
                /\ mold_mult' = MultiplierCurve(r.st.level, level)
                /\ luck_multiplier' = MultiplierCurve(luck_level, level)
           ELSE UNCHANGED << mold_level, money, mold_cost, luck_cost, mold_mult,
                             luck_multiplier >>
        /\ UNCHANGED << level, exp, equipped, item_storage, recycled_ids, luck_level,
                        item_id_counter, sell_area, spawned_enemies,
                        auto_sell_threshold, now, pendingSell, combatModal,
                        nextUid, nextEid, nextEnemy, probe >>

\* purchaseLuckUpgrades()
PurchaseLuckUpgrades(v) ==
    LET amount == ParseAmount(v)
        r == upgradeLuck(amount)
    IN  /\ ret' = Result("upgradeLuck", << amount >>, r.success,
                         [ message |-> r.message, totalCost |-> r.totalCost ])
        /\ IF r.success
           THEN /\ luck_level' = r.st.level
                /\ money' = r.st.money
                /\ mold_cost' = MoldCostAt(mold_level)
                /\ luck_cost' = LuckCostRecalcAt(r.st.level)
                /\ mold_mult' = MultiplierCurve(mold_level, level)
                /\ luck_multiplier' = MultiplierCurve(r.st.level, level)
           ELSE UNCHANGED << luck_level, money, mold_cost, luck_cost, mold_mult,
                             luck_multiplier >>
        /\ UNCHANGED << level, exp, equipped, item_storage, recycled_ids, mold_level,
                        item_id_counter, sell_area, spawned_enemies,
                        auto_sell_threshold, now, pendingSell, combatModal,
                        nextUid, nextEid, nextEnemy, probe >>

\* showUpgrades(): gameCore.recalculate() (lines 184-188).
ShowUpgrades ==
    /\ mold_cost' = MoldCostAt(mold_level)
    /\ luck_cost' = LuckCostRecalcAt(luck_level)
    /\ mold_mult' = MultiplierCurve(mold_level, level)
    /\ luck_multiplier' = MultiplierCurve(luck_level, level)
    /\ ret' = Result("showUpgrades", << >>, TRUE, << >>)
    /\ UNCHANGED << level, exp, equipped, money, item_storage, recycled_ids,
                    mold_level, luck_level, item_id_counter, sell_area,
                    spawned_enemies, auto_sell_threshold, now, pendingSell,
                    combatModal, nextUid, nextEid, nextEnemy, probe >>

(***************************************************************************)
(* Enemy system (src/unnamed/part_000:218-342).                            *)
(***************************************************************************)
ENEMY_BASE_HEALTH == 50
ENEMY_BASE_EXP == 20
ENEMY_BASE_CASH == 50
ENEMY_BASE_DAMAGE == 5

\* Rows of ENEMY_RARITIES: health multiplier in thousandths, damage, EXP and
\* cash multipliers in hundredths, and the despawn timer of the row,
\* Math.floor(120 * Math.log(rarityScale + 5) / Math.log(1.2)) with
\* rarityScale = 23 - row (lines 296-298).
ENEMY_RARITIES ==
    << [name |-> "Zenith",      div2 |-> 40000000, health |-> 10000000, dmg |-> 50000, expm |-> 10000, cash |-> 12000, despawn |-> 2169],
       [name |-> "Universal",   div2 |-> 1900000,  health |-> 4000000,  dmg |-> 20000, expm |-> 5000,  cash |-> 6000,  despawn |-> 2144],
       [name |-> "Cosmic",      div2 |-> 1300000,  health |-> 1000000,  dmg |-> 15000, expm |-> 2000,  cash |-> 2500,  despawn |-> 2118],
       [name |-> "Divine",      div2 |-> 800000,   health |-> 750000,   dmg |-> 10000, expm |-> 1300,  cash |-> 1600,  despawn |-> 2091],
       [name |-> "Mythical+2",  div2 |-> 240000,   health |-> 500000,   dmg |-> 8000,  expm |-> 1000,  cash |-> 1200,  despawn |-> 2063],
       [name |-> "Mythical+1",  div2 |-> 140000,   health |-> 550000,   dmg |-> 6500,  expm |-> 775,   cash |-> 900,   despawn |-> 2034],
       [name |-> "Mythical",    div2 |-> 50000,    health |-> 300000,   dmg |-> 4000,  expm |-> 600,   cash |-> 700,   despawn |-> 2003],
       [name |-> "Legendary+2", div2 |-> 20000,    health |-> 100000,   dmg |-> 2725,  expm |-> 450,   cash |-> 600,   despawn |-> 1971],
       [name |-> "Legendary+1", div2 |-> 10000,    health |-> 75000,    dmg |-> 2000,  expm |-> 400,   cash |-> 500,   despawn |-> 1937],
       [name |-> "Legendary",   div2 |-> 2500,     health |-> 50000,    dmg |-> 1500,  expm |-> 325,   cash |-> 450,   despawn |-> 1902],
       [name |-> "Epic+2",      div2 |-> 1400,     health |-> 35000,    dmg |-> 900,   expm |-> 250,   cash |-> 350,   despawn |-> 1864],
       [name |-> "Epic+1",      div2 |-> 550,      health |-> 25000,    dmg |-> 675,   expm |-> 225,   cash |-> 300,   despawn |-> 1824],
       [name |-> "Epic",        div2 |-> 300,      health |-> 17750,    dmg |-> 500,   expm |-> 210,   cash |-> 250,   despawn |-> 1782],
       [name |-> "Rare+2",      div2 |-> 200,      health |-> 10000,    dmg |-> 400,   expm |-> 180,   cash |-> 220,   despawn |-> 1736],
       [name |-> "Rare+1",      div2 |-> 100,      health |-> 8600,     dmg |-> 325,   expm |-> 165,   cash |-> 200,   despawn |-> 1688],
       [name |-> "Rare",        div2 |-> 90,       health |-> 7000,     dmg |-> 250,   expm |-> 150,   cash |-> 180,   despawn |-> 1635],
       [name |-> "Uncommon+2",  div2 |-> 40,       health |-> 5500,     dmg |-> 200,   expm |-> 120,   cash |-> 150,   despawn |-> 1578],
       [name |-> "Uncommon+1",  div2 |-> 20,       health |-> 4200,     dmg |-> 170,   expm |-> 115,   cash |-> 130,   despawn |-> 1515],
       [name |-> "Uncommon",    div2 |-> 12,       health |-> 3750,     dmg |-> 150,   expm |-> 110,   cash |-> 120,   despawn |-> 1446],
       [name |-> "Common+2",    div2 |-> 4,        health |-> 2000,     dmg |-> 125,   expm |-> 105,   cash |-> 110,   despawn |-> 1368],
       [name |-> "Common+1",    div2 |-> 3,        health |-> 1875,     dmg |-> 110,   expm |-> 103,   cash |-> 105,   despawn |-> 1280],
       [name |-> "Common",      div2 |-> 2,        health |-> 1500,     dmg |-> 100,   expm |-> 100,   cash |-> 100,   despawn |-> 1179] >>

\* AREAS: name, luck multiplier, elite multiplier, level requirement, drops.
AREAS ==
    << [name |-> "Champions Hall", luck |-> 10000, elite |-> 1,    level |-> 100, drops |-> TRUE],
       [name |-> "Elite Hall",     luck |-> 400,   elite |-> 1000, level |-> 60,  drops |-> TRUE],
       [name |-> "Adept Hall",     luck |-> 40,    elite |-> 500,  level |-> 25,  drops |-> FALSE],
       [name |-> "Beginner Hall",  luck |-> 5,     elite |-> 10,   level |-> 1,   drops |-> FALSE] >>

\* The indices of AREAS whose lists the model follows (see AreaNames).
AreaIndices == { i \in 1..Len(AREAS) : AREAS[i].name \in AreaNames }

\* enemy_luck_multiplier of updateLuckMult (game-config.js:211) in
\* hundredths: Math.round(Math.pow(1 + level/100, 2.5) * 100) for level 1..20.
EnemyLuckTable ==
    << 103, 105, 108, 110, 113, 116, 118, 121, 124, 127,
       130, 133, 136, 139, 142, 145, 148, 151, 154, 158 >>

\* The draws of Math.random followed for an enemy's roll.
EnemyOdds == {1, 2}

\* Whether eliteRoll (line 269) can come out 1, and other than 1.
EliteChoices(area) ==
    IF 1000 \div Max(1, area.elite) > 1 THEN BOOLEAN ELSE { TRUE }

\* generateEnemy(areaChoice, enemyLuckMultiplier) with the roll at odds
\* `odds`, the elite roll's outcome `isElite`, at time t.  uid is the
\* object's identity; RNG is in hundredths.
generateEnemy(uid, area, enemyLuck100, odds, isElite, t) ==
    LET luck == enemyLuck100 * area.luck
        maxRoll == FloorTimes100Div(MAXIMUM_VALUE, Max(100, luck))
        roll == RollAtOdds(maxRoll, odds)
        enemyRarity == getTier(roll, ENEMY_RARITIES, luck)
        row == ENEMY_RARITIES[enemyRarity.index]
        factor(elite, champ) ==
            (IF isElite THEN elite ELSE 1)
                * (IF area.name = "Champions Hall" THEN champ ELSE 1)
    IN  [ uid |-> uid,
          name |-> enemyRarity.tier,
          Elite |-> isElite,
          health |-> (ENEMY_BASE_HEALTH * row.health * factor(20, 200)) \div 1000,
          damage |-> (ENEMY_BASE_DAMAGE * row.dmg * factor(10, 200)) \div 100,
          exp |-> (ENEMY_BASE_EXP * row.expm * factor(20, 750)) \div 100,
          cash |-> (ENEMY_BASE_CASH * row.cash * factor(35, 1500)) \div 100,
          RNG |-> Ratio100(maxRoll, roll),
          spawn_time |-> t,
          despawn_timer |-> row.despawn ]

\* The call of getTier generateEnemy makes (line 271).
EnemyTierCall(area, enemyLuck100, odds) ==
    LET luck == enemyLuck100 * area.luck
    IN  GetTierCall(RollAtOdds(FloorTimes100Div(MAXIMUM_VALUE, Max(100, luck)), odds),
                    ENEMY_RARITIES, luck)

\* The filter of removeExpiredEnemies (line 327).
KeepEnemy(currentTime, enemy) ==
    (currentTime - enemy.spawn_time) <= enemy.despawn_timer

\* removeExpiredEnemies(spawnedEnemies) at time currentTime.
removeExpiredEnemies(spawnedEnemies, currentTime) ==
    [ a \in DOMAIN spawnedEnemies |->
        SelectSeq(spawnedEnemies[a], LAMBDA e : KeepEnemy(currentTime, e)) ]

\* rarityOrder of sortEnemiesByRarity: the row index of a name.
RarityOrder(name) == FindIndex({ k \in 1..Len(ENEMY_RARITIES) : ENEMY_RARITIES[k].name = name })

\* sortEnemiesByRarity: Array.sort by rarityOrder, stable.  Insert(e, s)
\* puts e after the elements of the sorted s that do not come after it.
RECURSIVE InsertByRarity(_, _)
InsertByRarity(e, s) ==
    IF s = << >> THEN << e >>
    ELSE IF RarityOrder(Head(s).name) <= RarityOrder(e.name)
    THEN << Head(s) >> \o InsertByRarity(e, Tail(s))
    ELSE << e >> \o s

RECURSIVE sortEnemiesByRarity(_)
sortEnemiesByRarity(enemies) ==
    IF enemies = << >> THEN << >>
    ELSE InsertByRarity(enemies[Len(enemies)],
                        sortEnemiesByRarity(SubSeq(enemies, 1, Len(enemies) - 1)))

\* The enemy-spawn timer's callback (game-config.js:576-586): one enemy
\* generated, pushed and the list sorted for the area, then the expiry sweep.
SpawnEnemies ==
    /\ nextEnemy < MaxEnemies
    /\ \E a \in AreaIndices, odds \in EnemyOdds :
         \E isElite \in EliteChoices(AREAS[a]) :
           LET enemy == generateEnemy(nextEnemy, AREAS[a], EnemyLuckTable[level],
                                      odds, isElite, now)
               pushed == [ spawned_enemies EXCEPT ![AREAS[a].name] =
                             sortEnemiesByRarity(Append(@, enemy)) ]
           IN  /\ spawned_enemies' = removeExpiredEnemies(pushed, now)
               /\ ret' = ResultCalls("spawnEnemies", << >>, TRUE, << >>,
                        << EnemyTierCall(AREAS[a], EnemyLuckTable[level], odds) >>)
    /\ nextEnemy' = nextEnemy + 1
    /\ UNCHANGED << level, exp, equipped, money, item_storage, recycled_ids,
                    mold_level, luck_level, mold_cost, luck_cost, mold_mult,
                    luck_multiplier, item_id_counter, sell_area,
                    auto_sell_threshold, now, pendingSell, combatModal,
                    nextUid, nextEid, probe >>

\* The expiry timer's callback (game-config.js:597-599).
ExpirySweep ==
    /\ spawned_enemies' = removeExpiredEnemies(spawned_enemies, now)
    /\ ret' = Result("expirySweep", << now >>, TRUE, << >>)
    /\ UNCHANGED << level, exp, equipped, money, item_storage, recycled_ids,
                    mold_level, luck_level, mold_cost, luck_cost, mold_mult,
                    luck_multiplier, item_id_counter, sell_area,
                    auto_sell_threshold, now, pendingSell, combatModal,
                    nextUid, nextEid, nextEnemy, probe >>

(***************************************************************************)
(* Combat (src/game-config.js:321-410, src/game-ui.js:701-777).            *)
(***************************************************************************)
\* The bound of moldIndex in enemyLoot (lines 332-333):
\* Math.max(1, Math.floor(MAXIMUM_VALUE / (mold_mult * player_luck_multiplier)))
\* with mold_mult in hundredths and player_luck_multiplier = 1 + lv / 100.
LootMoldBound(moldMult100, lv) ==
    LET p == (IF moldMult100 > 0 THEN moldMult100 ELSE 100) * (100 + lv)
    IN  Max(1, (MAXIMUM_VALUE \div p) * 10000 + ((MAXIMUM_VALUE % p) * 10000) \div p)

\* The draws followed for moldIndex = Math.floor(Math.random() * bound):
\* the smallest and the largest.
LootMoldRolls(bound) == { 0, bound - 1 }

\* enemyLoot(enemy): the drop, given the weapon chosen, the mold roll and the
\* ID allocated.
enemyLoot(uid, id, enemy, w, moldIndex, moldMult100) ==
    LET enemyRarityIndex == FindIndex({ k \in 1..Len(RARITY_TIERS) : RARITY_TIERS[k].name = enemy.name })
        row == IF enemyRarityIndex > 0 THEN enemyRarityIndex ELSE Len(RARITY_TIERS)
        moldResult == getTier(moldIndex, MOLD_TIERS, moldMult100)
    IN  [ uid |-> uid,
          ID |-> id,
          RNG |-> RoundDiv(enemy.RNG, 10),
          Mold |-> moldResult.tier,
          Rarity |-> RARITY_TIERS[row].name,
          Price |-> RoundDiv(LootPriceFactor[row] * MOLD_TIERS[moldResult.index].price, 10^4),
          Weapon |-> WEAPON_TYPES[w].name,
          Damage |-> WEAPON_TYPES[w].dmg * RARITY_TIERS[row].dmg,
          Defense |-> WEAPON_TYPES[w].def * RARITY_TIERS[row].dmg * 5 ]

\* The smallest n with n * per >= total, for per > 0: the iteration in
\* which a health of `total` reduced by `per` each time first is <= 0.
HitsNeeded(total, per) == (total + per - 1) \div per

\* A JavaScript number that is an integer, Infinity, -Infinity or NaN.
Finite(v) == [ kind |-> "finite", value |-> v ]

\* damageDealt (line 365) with Math.round for Math.floor.
DamageDealtRounded(weapon) == RoundDiv(weapon.Damage, 100)

\* damageDealt (line 365): Math.floor(weapon.Damage).
DamageDealt(weapon) == weapon.Damage \div 100

\* The test of line 368 with < for <=.
EnemyDownStrict(enemyHealth) == enemyHealth < 0

\* The test of line 368.
EnemyDown(enemyHealth) == enemyHealth <= 0

\* damageTaken (lines 400-401): Math.max(0, Math.floor(enemy.damage /
\* weapon.Defense)) for a Defense >= 0.  A Defense of 0 divides by zero:
\* Infinity for a positive attack, NaN for an attack of 0.
DamageTaken(weapon, enemy) ==
    IF weapon.Defense # 0
    THEN Finite(Max(0, (enemy.damage * 1000) \div weapon.Defense))
    ELSE IF enemy.damage > 0
    THEN [ kind |-> "Infinity", value |-> 0 ]
    ELSE [ kind |-> "NaN", value |-> 0 ]

\* playerHealth -= damageTaken (line 402).
TakeDamage(playerHealth, taken) ==
    IF playerHealth.kind # "finite" THEN playerHealth
    ELSE IF taken.kind = "finite" THEN Finite(playerHealth.value - taken.value)
    ELSE IF taken.kind = "Infinity" THEN [ kind |-> "-Infinity", value |-> 0 ]
    ELSE [ kind |-> "NaN", value |-> 0 ]

\* playerHealth > 0 (line 364) and playerHealth <= 0 (line 404): both are
\* false of NaN.
HealthPositive(h) == h.kind = "finite" /\ h.value > 0
HealthUsedUp(h) == (h.kind = "finite" /\ h.value <= 0) \/ h.kind = "-Infinity"

\* The drop test with the area left out.
DroppingEliteOnly(enemy, areaName) == enemy.Elite

\* The drop test of line 380.
Dropping(enemy, areaName) == enemy.Elite \/ areaName = "Champions Hall"

\* The while loop of fightEnemy (lines 364-407) for a weapon and an enemy:
\* how it ends and after how many player attacks.  Each iteration takes
\* damageDealt from the enemy, returns the victory if that leaves none,
\* then takes damageTaken from the player and returns the defeat if that
\* leaves none; both amounts are the same in every iteration, so the loop
\* ends in the first iteration in which either health is used up, the
\* enemy's being tested first.  A loop in which neither side loses health
\* never ends; a player health of NaN ends the loop without a return.
fightLoop(playerHealth, enemyHealth, weapon, enemy) ==
    LET damageDealt == DamageDealt(weapon)
        taken == DamageTaken(weapon, enemy)
        damageTaken == taken.value
    IN  IF ~(playerHealth > 0 /\ enemyHealth > 0)
        THEN [ end |-> "unexpected", attacks |-> 0 ]
        ELSE IF EnemyDown(enemyHealth - damageDealt)
        THEN [ end |-> "victory", attacks |-> 1 ]
        ELSE IF taken.kind = "Infinity"
        THEN [ end |-> "defeat", attacks |-> 1 ]
        ELSE IF taken.kind = "NaN"
        THEN [ end |-> "unexpected", attacks |-> 1 ]
        ELSE IF damageDealt <= 0 /\ damageTaken <= 0
        THEN [ end |-> "never", attacks |-> 0 ]
        ELSE IF damageTaken <= 0
        THEN [ end |-> "victory", attacks |-> HitsNeeded(enemyHealth, damageDealt) ]
        ELSE IF damageDealt <= 0
        THEN [ end |-> "defeat", attacks |-> HitsNeeded(playerHealth, damageTaken) ]
        ELSE IF HitsNeeded(enemyHealth, damageDealt) <= HitsNeeded(playerHealth, damageTaken)
        THEN [ end |-> "victory", attacks |-> HitsNeeded(enemyHealth, damageDealt) ]
        ELSE [ end |-> "defeat", attacks |-> HitsNeeded(playerHealth, damageTaken) ]

\* The victory of fightEnemy (lines 369-397): the rewards, the level-ups,
\* the enemy spliced out of its area's list and, for an elite enemy or in
\* Champions Hall, the drop pushed to item_storage.
Victory(areaName, enemy, arg, attacks) ==
    LET up == checkLevelUp(level, exp + enemy.exp * ExpUnit)
        moldMult == IF up.levelsGained > 0
                    THEN MultiplierCurve(mold_level, up.level)
                    ELSE mold_mult
        alloc == AllocateId(recycled_ids, item_id_counter)
    IN  /\ money' = money + enemy.cash * Cent
        /\ exp' = up.exp
        /\ level' = up.level
        /\ mold_mult' = moldMult
        /\ luck_multiplier' = IF up.levelsGained > 0
                              THEN MultiplierCurve(luck_level, up.level)
                              ELSE luck_multiplier
        /\ spawned_enemies' = [ spawned_enemies EXCEPT ![areaName] =
                                  SelectSeq(@, LAMBDA e : e.uid # enemy.uid) ]
        /\ IF Dropping(enemy, areaName)
           THEN \E w \in AvailableWeapons(mold_level),
                   moldIndex \in LootMoldRolls(LootMoldBound(moldMult, up.level)) :
                  LET drop == enemyLoot(nextUid, alloc.id, enemy, w, moldIndex, moldMult)
                  IN  /\ item_storage' = Append(item_storage, drop)
                      /\ recycled_ids' = alloc.recycled
                      /\ item_id_counter' = alloc.counter
                      /\ nextUid' = nextUid + 1
                      /\ ret' = ResultCalls("fightEnemy", arg, TRUE,
                                    [ end |-> "victory", enemy |-> enemy.uid,
                                      attacks |-> attacks,
                                      levelsGained |-> up.levelsGained,
                                      drop |-> << drop >> ],
                                    << GetTierCall(moldIndex, MOLD_TIERS, moldMult) >>)
           ELSE /\ ret' = Result("fightEnemy", arg, TRUE,
                                 [ end |-> "victory", enemy |-> enemy.uid,
                                   attacks |-> attacks,
                                   levelsGained |-> up.levelsGained,
                                   drop |-> << >> ])
                /\ UNCHANGED << item_storage, recycled_ids, item_id_counter, nextUid >>

PlayerHealth == 100

\* enterArea(areaIndex): the checks of lines 705-720, then the enemy list
\* is rendered with one Fight button per index.  A call that only notifies
\* leaves every variable as it is.
EnterArea(a) ==
    LET area == AREAS[a]
        enemies == spawned_enemies[area.name]
    IN  IF level < area.level \/ equipped = << >> \/ enemies = << >>
        THEN UNCHANGED vars
        ELSE /\ combatModal' = << [ area |-> a, listed |-> enemies ] >>
             /\ ret' = Result("enterArea", << a >>, TRUE, << >>)
             /\ UNCHANGED << coreVars, auto_sell_threshold, now, pendingSell,
                             nextUid, nextEid, nextEnemy, probe >>

\* The enemy a Fight button stands for: the one at the button's index in
\* the list as it is now (game-ui.js:748-749); << >> when there is none.
EnemyAtIndex(enemies, listed, k) ==
    IF k <= Len(enemies) THEN << enemies[k] >> ELSE << >>

\* The enemy a Fight button stands for, were it looked up by identity: the
\* listed enemy if it is still in the list.
EnemyByIdentity(enemies, listed, k) ==
    SelectSeq(enemies, LAMBDA e : e.uid = listed[k].uid)

\* fightEnemy(areaIndex, enemyIndex) of the UI, from the Fight button k
\* (1-based) of the combat modal, with gameCore.fightEnemy inlined.
FightEnemy(k) ==
    /\ combatModal # << >>
    /\ k \in 1..Len(combatModal[1].listed)
    /\ LET a == combatModal[1].area
           areaName == AREAS[a].name
           enemies == spawned_enemies[areaName]
           found == EnemyAtIndex(enemies, combatModal[1].listed, k)
       IN  IF found = << >>
           THEN \* 'Enemy no longer exists!'
                /\ combatModal' = << >>
                /\ ret' = Result("fightEnemy", << k >>, FALSE, [ end |-> "gone" ])
                /\ UNCHANGED << coreVars, auto_sell_threshold, now, pendingSell,
                                nextUid, nextEid, nextEnemy, probe >>
           ELSE IF equipped = << >>
           THEN \* weapon is null: weapon.Damage throws out of the handler
                /\ ret' = Result("fightEnemy", << k >>, FALSE, [ end |-> "threw" ])
                /\ UNCHANGED << coreVars, auto_sell_threshold, now, pendingSell,
                                combatModal, nextUid, nextEid, nextEnemy, probe >>
           ELSE LET enemy == found[1]
                    weapon == equipped[1]
                    fight == fightLoop(PlayerHealth, enemy.health, weapon, enemy)
                IN  /\ fight.end # "never"
                    /\ combatModal' = << >>
                    /\ IF fight.end = "victory"
                       THEN Victory(areaName, enemy, << k >>, fight.attacks)
                       ELSE /\ ret' = Result("fightEnemy", << k >>, FALSE,
                                             [ end |-> fight.end, enemy |-> enemy.uid,
                                               attacks |-> fight.attacks ])
                            /\ UNCHANGED << money, exp, level, mold_mult, luck_multiplier,
                                            spawned_enemies, item_storage, recycled_ids,
                                            item_id_counter, nextUid >>
                    /\ UNCHANGED << equipped, mold_level, luck_level, mold_cost, luck_cost,
                                    sell_area, auto_sell_threshold, now, pendingSell,
                                    nextEid, nextEnemy, probe >>

(***************************************************************************)
(* gameCore.fightEnemy followed turn by turn (src/game-config.js:359-410). *)
(* probe holds the call: the area, the enemy, the locals playerHealth and  *)
(* enemyHealth, the attacks made so far and how the call stands.           *)
(***************************************************************************)
\* The entry of fightEnemy(areaName, enemy, dropItems), lines 359-362.
BeginFight ==
    /\ probe = << >>
    /\ \E areaName \in DOMAIN spawned_enemies :
         \E i \in 1..Len(spawned_enemies[areaName]) :
            probe' = << [ area |-> areaName,
                          enemy |-> spawned_enemies[areaName][i],
                          playerHealth |-> Finite(PlayerHealth),
                          enemyHealth |-> spawned_enemies[areaName][i].health,
                          attacks |-> 0,
                          status |-> "running" ] >>
    /\ ret' = Result("beginFight", << >>, TRUE, << >>)
    /\ UNCHANGED << coreVars, auto_sell_threshold, now, pendingSell, combatModal,
                    nextUid, nextEid, nextEnemy >>

\* The call has returned or thrown: the state it leaves in probe.
FightEnded(p, status, attacks) ==
    [ p EXCEPT !.status = status, !.attacks = attacks ]

\* One evaluation of the loop test and, when it holds, one iteration of
\* the while loop (lines 364-407); when it fails, the return of line 409.
\* With no weapon equipped, line 365 throws a TypeError.
FightTurn ==
    /\ probe # << >>
    /\ probe[1].status = "running"
    /\ LET p == probe[1]
           enemy == p.enemy
       IN  IF ~(HealthPositive(p.playerHealth) /\ p.enemyHealth > 0)
           THEN /\ probe' = << FightEnded(p, "unexpected", p.attacks) >>
                /\ ret' = Result("fightEnemy", << >>, FALSE,
                                 [ end |-> "unexpected", enemy |-> enemy.uid,
                                   attacks |-> p.attacks ])
                /\ UNCHANGED << coreVars, nextUid >>
           ELSE IF equipped = << >>
           THEN /\ probe' = << FightEnded(p, "threw", p.attacks) >>
                /\ ret' = Result("fightEnemy", << >>, FALSE,
                                 [ end |-> "threw", enemy |-> enemy.uid,
                                   attacks |-> p.attacks ])
                /\ UNCHANGED << coreVars, nextUid >>
           ELSE LET weapon == equipped[1]
                    enemyHealth == p.enemyHealth - DamageDealt(weapon)
                    playerHealth == TakeDamage(p.playerHealth, DamageTaken(weapon, enemy))
                IN  IF EnemyDown(enemyHealth)
                    THEN /\ probe' = << [ FightEnded(p, "victory", p.attacks + 1)
                                            EXCEPT !.enemyHealth = enemyHealth ] >>
                         /\ Victory(p.area, enemy, << >>, p.attacks + 1)
                         /\ UNCHANGED << equipped, mold_level, luck_level, mold_cost,
                                         luck_cost, sell_area >>
                    ELSE IF HealthUsedUp(playerHealth)
                    THEN /\ probe' = << [ FightEnded(p, "defeat", p.attacks + 1)
                                            EXCEPT !.enemyHealth = enemyHealth,
                                                   !.playerHealth = playerHealth ] >>
                         /\ ret' = Result("fightEnemy", << >>, FALSE,
                                          [ end |-> "defeat", enemy |-> enemy.uid,
                                            attacks |-> p.attacks + 1 ])
                         /\ UNCHANGED << coreVars, nextUid >>
                    ELSE /\ probe' = << [ p EXCEPT !.enemyHealth = enemyHealth,
                                                   !.playerHealth = playerHealth,
                                                   !.attacks = p.attacks + 1 ] >>
                         /\ UNCHANGED << coreVars, nextUid, ret >>
    /\ UNCHANGED << auto_sell_threshold, now, pendingSell, combatModal, nextEid,
                    nextEnemy >>

(***************************************************************************)
(* The tier resolver on its own: getTier called on rolls around every      *)
(* row's range.                                                            *)
(***************************************************************************)
TierTables ==
    [ rarity |-> RARITY_TIERS, mold |-> MOLD_TIERS, enemy |-> ENEMY_RARITIES ]

\* The lower bound of row i: the previous row's threshold, 0 for the first.
PrevThreshold(tiers, i) == IF i > 1 THEN Threshold(tiers[i - 1]) ELSE 0

\* The rolls tried for row i: both ends of its range, the rolls next to
\* them on either side and the middle of the range.
ProbeRolls(tiers, i) ==
    LET prev == PrevThreshold(tiers, i)
        threshold == Threshold(tiers[i])
    IN  { prev, prev + 1, (prev + threshold) \div 2, threshold - 1, threshold,
          threshold + 1 }

\* The luck multipliers tried, in hundredths (getTier never reads it).
ProbeLuck == { 100, 250 }

\* A call getTier(roll, table, luck); the call and its result are kept in
\* probe.
GetTierProbe ==
    /\ \E t \in DOMAIN TierTables :
         \E i \in 1..Len(TierTables[t]), luck \in ProbeLuck :
           \E roll \in ProbeRolls(TierTables[t], i) :
              /\ probe' = << [ table |-> t, row |-> i, roll |-> roll, luck |-> luck,
                               result |-> getTier(roll, TierTables[t], luck) ] >>
              /\ ret' = Result("getTier", << t, roll, luck >>, TRUE, << >>)
    /\ UNCHANGED << coreVars, auto_sell_threshold, now, pendingSell, combatModal,
                    nextUid, nextEid, nextEnemy >>

TierNext == GetTierProbe

SpecTier == GameInit /\ [][TierNext]_vars

SellClockSteps == { 1, SellTimer - 1 }

SellNext ==
    \/ ItemGenOf(MaxQueued, { 1 })
    \/ ProcessSellArea
    \/ AdvanceBy(SellClockSteps, MaxTime)

SpecSell == GameInit /\ [][SellNext]_vars

(***************************************************************************)
(* The inventory: the item timer, the inventory handlers of the UI and the *)
(* sell-area timer, with the clock moving by a whole sell timer.           *)
(***************************************************************************)
InventoryClockSteps == { SellTimer }

InventoryNext ==
    \/ ItemGenOf(MaxItems, RarityOdds)
    \/ \E itemId \in ItemIds : EquipItem(itemId)
    \/ UnequipWeapon
    \/ \E itemId \in ItemIds : SellItem(itemId)
    \/ ConfirmSell
    \/ CancelSell
    \/ \E itemId \in ItemIds : RemoveFromSellArea(itemId)
    \/ ProcessSellArea
    \/ AdvanceBy(InventoryClockSteps, SellTimer)

SpecInventory == GameInit /\ [][InventoryNext]_vars

(***************************************************************************)
(* Combat: the item, enemy and expiry timers, equipping, the area list and *)
(* the fight, and the sell-area timer, with a coarse clock.                *)
(***************************************************************************)
\* The clock moves in steps longer than half a despawn timer, so that an
\* enemy outlives one spawned a step earlier.
FightClockSteps == { 700 }
FightClockEnd == 2 * 700

FightNext ==
    \/ ItemGenOf(MaxItems, RarityOdds)
    \/ \E itemId \in ItemIds : EquipItem(itemId)
    \/ ProcessSellArea
    \/ AdvanceBy(FightClockSteps, FightClockEnd)
    \/ SpawnEnemies
    \/ ExpirySweep
    \/ \E a \in AreaIndices : EnterArea(a)
    \/ \E k \in 1..MaxEnemies : FightEnemy(k)

SpecFight == GameInit /\ [][FightNext]_vars

(***************************************************************************)
(* Upgrades: money earned by the sell area and spent in the upgrades       *)
(* modal.                                                                  *)
(***************************************************************************)
UpgradeClockSteps == { SellTimer }

UpgradeNext ==
    \/ ItemGenOf(MaxQueued, { 1 })
    \/ ProcessSellArea
    \/ AdvanceBy(UpgradeClockSteps, SellTimer)
    \/ ShowUpgrades
    \/ \E v \in InputValues : PurchaseMoldUpgrades(v)
    \/ \E v \in InputValues : PurchaseLuckUpgrades(v)

SpecUpgrade == GameInit /\ [][UpgradeNext]_vars

(***************************************************************************)
(* The arena: the item and enemy timers, equipping and unequipping, the    *)
(* area list and the fight, with the clock standing.                       *)
(***************************************************************************)
ArenaNext ==
    \/ ItemGenOf(MaxItems, RarityOdds)
    \/ \E itemId \in ItemIds : EquipItem(itemId)
    \/ UnequipWeapon
    \/ SpawnEnemies
    \/ \E a \in AreaIndices : EnterArea(a)
    \/ \E k \in 1..MaxEnemies : FightEnemy(k)

SpecArena == GameInit /\ [][ArenaNext]_vars

(***************************************************************************)
(* Expiry: the enemy and expiry timers with a clock that reaches an        *)
(* enemy's despawn timer to the second.                                    *)
(***************************************************************************)
\* Two steps of the clock add up to the despawn timer of a Common+2 enemy
\* (1368 seconds), to a second more or to two seconds more.
ExpiryClockSteps == { 684, 685 }
ExpiryClockEnd == 2 * 685

ExpiryNext ==
    \/ SpawnEnemies
    \/ ExpirySweep
    \/ AdvanceBy(ExpiryClockSteps, ExpiryClockEnd)

SpecExpiry == GameInit /\ [][ExpiryNext]_vars

(***************************************************************************)
(* Routing: the item timer and the auto-sell setting.                      *)
(***************************************************************************)
RoutingNext ==
    \/ ItemGenOf(MaxQueued, RarityOdds)
    \/ \E value \in ThresholdInputs : UpdateAutoSellThreshold(value)

SpecRouting == GameInit /\ [][RoutingNext]_vars

(***************************************************************************)
(* Awards: `this.player.exp += amount; this.checkLevelUp()` applied to a   *)
(* player at a drawn level and experience, for two amounts one after the   *)
(* other and for their sum at once.                                        *)
(***************************************************************************)
\* The levels and, per level, the experience the player starts with.
AwardLevels == { 1, 2, 5 }
AwardExps(lv) == { 0, 1, requiredExp(lv) \div 2, requiredExp(lv) - 1 }

\* The amounts awarded, in exp units: the smallest unit, the sale of a
\* Common Copper item (9.29171), and the experience of a Common, of an
\* elite Common+2 and of an elite Mythical enemy.
AwardAmounts == { 1, 929171, 20 * ExpUnit, 420 * ExpUnit, 2400 * ExpUnit }

\* exp += amount, then checkLevelUp (lines 370-371, 473-474).
Award(lv, e, amount) == checkLevelUp(lv, e + amount)

\* The game as constructed, for a player at one of the levels with one of
\* the experiences.
AwardInit ==
    /\ level \in AwardLevels
    /\ exp \in AwardExps(level)
    /\ equipped = << >>
    /\ money = 0
    /\ item_storage = << >>
    /\ recycled_ids = << >>
    /\ mold_level = 1
    /\ luck_level = 1
    /\ mold_cost = MoldCostAt(1)
    /\ luck_cost = LuckCostRecalcAt(1)
    /\ mold_mult = MultiplierCurve(1, level)
    /\ luck_multiplier = MultiplierCurve(1, level)
    /\ item_id_counter = 0
    /\ sell_area = << >>
    /\ spawned_enemies = [ a \in AreaNames |-> << >> ]
    /\ auto_sell_threshold = DefaultAutoSell
    /\ now = 0
    /\ pendingSell = << >>
    /\ combatModal = << >>
    /\ nextUid = 0
    /\ nextEid = 0
    /\ nextEnemy = 0
    /\ probe = << >>
    /\ ret = Result("init", << >>, TRUE, << >>)

\* Two awards of a and b, and one of a + b, from the player's state; the
\* amounts and the results are kept in probe.
AwardProbe ==
    /\ \E a \in AwardAmounts, b \in AwardAmounts :
         LET first == Award(level, exp, a)
         IN  probe' = << [ a |-> a, b |-> b,
                           first |-> first,
                           twice |-> Award(first.level, first.exp, b),
                           once |-> Award(level, exp, a + b) ] >>
    /\ ret' = Result("award", << >>, TRUE, << >>)
    /\ UNCHANGED << coreVars, auto_sell_threshold, now, pendingSell, combatModal,
                    nextUid, nextEid, nextEnemy >>

AwardNext == AwardProbe

SpecAward == AwardInit /\ [][AwardNext]_vars

(***************************************************************************)
(* Combat on its own: gameCore.fightEnemy called once, on a weapon and an  *)
(* enemy drawn from the ones the generators make and from fixtures made by *)
(* hand, and followed turn by turn.                                        *)
(***************************************************************************)
\* The rows of RARITY_TIERS and the weapon types the weapons are drawn at.
FixtureRarityRows == { 8, 14, 18, 22 }
FixtureWeaponTypes == { 1, 2 }

\* The odds the enemies' rolls are drawn at.
FixtureEnemyOdds == { 1, 2, 100 }

\* The result of getTier for a roll in row i.
TierRow(tiers, i) == getTier(Threshold(tiers[i]), tiers, 100)

\* Enemies as generateEnemy makes them in area a at player level 1.  In
\* Champions Hall only the weakest is followed: the stronger ones leave 32
\* bits.
GeneratedIn(a) ==
    IF AREAS[a].name = "Champions Hall"
    THEN { generateEnemy(0, AREAS[a], EnemyLuckTable[1], 1, FALSE, 0) }
    ELSE UNION { { generateEnemy(0, AREAS[a], EnemyLuckTable[1], odds, isElite, 0) :
                     isElite \in EliteChoices(AREAS[a]) } :
                 odds \in FixtureEnemyOdds }

GeneratedEnemies == UNION { GeneratedIn(a) : a \in 1..Len(AREAS) }

\* Weapons as itemGen makes them, and one as enemyLoot makes it.
GeneratedWeapons ==
    { MakeItem(0, 0, w, TierRow(RARITY_TIERS, r), TierRow(MOLD_TIERS, Len(MOLD_TIERS)), 10) :
        w \in FixtureWeaponTypes, r \in FixtureRarityRows }
      \cup { enemyLoot(0, 0, generateEnemy(0, AREAS[4], EnemyLuckTable[1], 2, TRUE, 0),
                       1, MAXIMUM_VALUE, 100) }

\* Fixtures made by hand: a weapon of damage 10 with a defense of 10 or of
\* 0, and an enemy of health 25 that attacks with 5 or with 0.
HandWeapons ==
    { [ uid |-> 0, ID |-> 0, RNG |-> 10, Mold |-> "Copper", Rarity |-> "Common",
        Price |-> 675, Weapon |-> "Sword", Damage |-> 10 * 100, Defense |-> d * 1000 ] :
        d \in { 0, 10 } }

HandEnemies ==
    { [ uid |-> 0, name |-> "Common", Elite |-> FALSE, health |-> 25, damage |-> d,
        exp |-> ENEMY_BASE_EXP, cash |-> ENEMY_BASE_CASH, RNG |-> 100,
        spawn_time |-> 0, despawn_timer |-> 1179 ] : d \in { 0, 5 } }

\* The areas an enemy made by hand is put in.
HandAreas == { "Champions Hall", "Beginner Hall" }

\* The fights followed: a generated enemy in the area whose multipliers
\* made it, an enemy made by hand in one of HandAreas.
FixtureFights ==
    UNION { { [ area |-> AREAS[a].name, enemy |-> e ] : e \in GeneratedIn(a) } :
            a \in 1..Len(AREAS) }
      \cup { [ area |-> n, enemy |-> e ] : n \in HandAreas, e \in HandEnemies }

\* The game as constructed, then a weapon equipped (or none) and one enemy
\* in one area's list.
CombatInit ==
    /\ level = 1
    /\ exp = 0
    /\ equipped \in { << >> } \cup { << w >> : w \in GeneratedWeapons \cup HandWeapons }
    /\ money = 0
    /\ item_storage = << >>
    /\ recycled_ids = << >>
    /\ mold_level = 1
    /\ luck_level = 1
    /\ mold_cost = MoldCostAt(1)
    /\ luck_cost = LuckCostRecalcAt(1)
    /\ mold_mult = MultiplierCurve(1, 1)
    /\ luck_multiplier = MultiplierCurve(1, 1)
    /\ item_id_counter = 1
    /\ sell_area = << >>
    /\ \E f \in FixtureFights :
          spawned_enemies = [ n \in { AREAS[a].name : a \in 1..Len(AREAS) } |->
                                IF n = f.area THEN << f.enemy >> ELSE << >> ]
    /\ auto_sell_threshold = DefaultAutoSell
    /\ now = 0
    /\ pendingSell = << >>
    /\ combatModal = << >>
    /\ nextUid = 1
    /\ nextEid = 0
    /\ nextEnemy = 1
    /\ probe = << >>
    /\ ret = Result("init", << >>, TRUE, << >>)

CombatNext ==
    \/ BeginFight
    \/ FightTurn

SpecCombat == CombatInit /\ [][CombatNext]_vars

\* The call runs on once begun: nothing stops a loop between two turns.
SpecCombatFair == SpecCombat /\ WF_vars(FightTurn)

\* A step of purchaseMoldUpgrades or purchaseLuckUpgrades.
UpgradeStep == ret'.op \in { "upgradeMold", "upgradeLuck" }

\* C2: a bulk upgrade that goes through deducts from money exactly the total
\* that was checked against the balance, the sum of the track's per-level
\* costs from the starting level on.
UpgradeChargesCheckedTotal ==
    [][ (UpgradeStep /\ ret'.success) =>
            /\ money - money' = ret'.out.totalCost
            /\ ret'.out.totalCost =
                   IF ret'.op = "upgradeMold"
                   THEN SumSeq([ j \in 1..ret'.arg[1] |-> MoldCostAt(mold_level + j - 1) ])
                   ELSE SumSeq([ j \in 1..ret'.arg[1] |-> LuckCostUpgradeAt(luck_level + j - 1) ])
      ]_vars

\* C3: a rejected upgrade request reports no success and leaves money, the
\* levels, the stored costs and the multipliers as they were, and an upgrade
\* that goes through never charges more than the money available.
UpgradeRejectedOrAffordable ==
    [][ UpgradeStep =>
            /\ (ret'.arg[1] <= 0 \/ money < ret'.out.totalCost) =>
                   /\ ~ret'.success
                   /\ UNCHANGED << money, mold_level, luck_level, mold_cost,
                                   luck_cost, mold_mult, luck_multiplier >>
            /\ ret'.success => money - money' <= money
      ]_vars

(***************************************************************************)
(* Properties of the sell area.                                            *)
(***************************************************************************)
\* A step of the sell-area timer.
SellStep == ret'.op = "processSellArea"

\* The entries a tick returned as sold.
SoldEntries(soldItems) == { soldItems[i].entry : i \in 1..Len(soldItems) }

\* Experience counted from level 1: the requirements of the levels passed
\* plus the experience held.
TotalExp(lv, e) == e + SumSeq([ l \in 1..(lv - 1) |-> requiredExp(l) ])

\* C5: an entry put in the sell area at time t with timer 30 is not sold by
\* a tick before t + 30 and stays queued; a tick at or after t + 30 sells
\* it, once, and takes it out of the sell area, so that no later tick can
\* sell it again; money grows by the prices of the entries sold, each
\* counted once.
SellTimerExact ==
    [][ SellStep =>
            /\ \A i \in 1..Len(sell_area) :
                 LET e == sell_area[i]
                 IN  IF now < e.time_added + SellTimer
                     THEN /\ e \notin SoldEntries(ret'.out)
                          /\ e \in Range(sell_area')
                     ELSE /\ e \in SoldEntries(ret'.out)
                          /\ e \notin Range(sell_area')
            /\ SoldEntries(ret'.out) \subseteq Range(sell_area)
            /\ Cardinality(SoldEntries(ret'.out)) = Len(ret'.out)
            /\ money' - money =
                   SumSeq([ i \in 1..Len(ret'.out) |-> ret'.out[i].entry.item.Price ])
      ]_vars

\* A tick at exactly t + 30 sold an entry queued at t.
SellTimerExactWitness ==
    /\ ret.op = "processSellArea"
    /\ \E i \in 1..Len(ret.out) :
          ret.out[i].entry.time_added + SellTimer = ret.arg[1]

\* C6: one tick sells every entry expired at that time: it returns them all,
\* adds each item's Price to money and Price * rarityExpMult * moldExpMult
\* to the experience, and leaves in the sell area exactly the entries not
\* expired, unchanged and in their order.
SellBatch ==
    [][ SellStep =>
            LET due == SelectSeq(sell_area,
                                 LAMBDA e : now >= e.time_added + e.timer)
                kept == SelectSeq(sell_area,
                                  LAMBDA e : ~(now >= e.time_added + e.timer))
            IN  /\ Len(ret'.out) = Len(due)
                /\ SoldEntries(ret'.out) = Range(due)
                /\ \A i \in 1..Len(ret'.out) : ret'.out[i].item = ret'.out[i].entry.item
                /\ money' = money + SumSeq([ i \in 1..Len(due) |-> due[i].item.Price ])
                /\ TotalExp(level', exp') =
                       TotalExp(level, exp)
                         + SumSeq([ i \in 1..Len(due) |->
                                      due[i].item.Price
                                        * rarityExpMult(due[i].item.Rarity)
                                        * moldExpMult(due[i].item.Mold) ])
                /\ sell_area' = kept
      ]_vars

\* A tick sold two entries at once and left a third, not yet expired.
SellBatchWitness ==
    /\ ret.op = "processSellArea"
    /\ Len(ret.out) >= 2
    /\ Len(sell_area) >= 1

(***************************************************************************)
(* Properties of the inventory.                                            *)
(***************************************************************************)
\* The item objects held, place by place: storage, sell area, equipped slot.
Holdings ==
    item_storage \o [ i \in 1..Len(sell_area) |-> sell_area[i].item ] \o equipped

\* C1: every item is held by exactly one of item_storage, sell_area and
\* player.equipped: no item object is in two places, or twice in one, at
\* the same time.
SingleOwner ==
    \A i, j \in 1..Len(Holdings) :
        i # j => Holdings[i].uid # Holdings[j].uid

\* C7: removeFromSellArea(id) on an id that is queued takes one entry of
\* that id out of the sell area and appends its item to item_storage, and
\* credits no money or experience; on an id that is not queued it changes
\* nothing.
RemoveFromSellAreaEffect ==
    [][ ret'.op = "removeFromSellArea" =>
            LET id == ret'.arg[1]
                queued == { i \in 1..Len(sell_area) : sell_area[i].item.ID = id }
            IN  /\ ret'.success = (queued # { })
                /\ IF queued = { }
                   THEN UNCHANGED << coreVars, auto_sell_threshold, now, pendingSell,
                                     combatModal >>
                   ELSE /\ \E i \in queued :
                             /\ Len(sell_area') = Len(sell_area) - 1
                             /\ \A j \in 1..Len(sell_area') :
                                   sell_area'[j] = sell_area[IF j < i THEN j ELSE j + 1]
                             /\ item_storage' = item_storage \o << sell_area[i].item >>
                        /\ UNCHANGED << money, exp, level, equipped, recycled_ids,
                                        item_id_counter, mold_level, luck_level,
                                        mold_cost, luck_cost, mold_mult,
                                        luck_multiplier, spawned_enemies >>
      ]_vars

\* An entry was taken back out of a sell area that held two, and its item
\* is in storage again.
RemoveFromSellAreaWitness ==
    /\ ret.op = "removeFromSellArea"
    /\ ret.success
    /\ Len(sell_area) >= 1
    /\ \E i \in 1..Len(item_storage) : item_storage[i].ID = ret.arg[1]

(***************************************************************************)
(* Properties of combat and of experience awards.                          *)
(***************************************************************************)
\* The enemy list of the area the combat modal was opened for, as it is now.
CurrentEnemies == spawned_enemies[AREAS[combatModal[1].area].name]

\* C4: after an experience award (a victory in fightEnemy, the sales of a
\* processSellArea tick) the experience held is below the requirement of
\* the level reached, also when the award spans several levels; no
\* experience is lost or made on the way, and the level-up counts returned
\* add up to the levels gained.
ExpAwardSettled ==
    [][ /\ (ret'.op = "fightEnemy" /\ ret'.success /\ combatModal # << >>) =>
              /\ 0 <= exp' /\ exp' < requiredExp(level')
              /\ ret'.out.levelsGained = level' - level
              /\ \E i \in 1..Len(CurrentEnemies) :
                    /\ CurrentEnemies[i].uid = ret'.out.enemy
                    /\ TotalExp(level', exp') =
                           TotalExp(level, exp) + CurrentEnemies[i].exp * ExpUnit
        /\ ret'.op = "processSellArea" =>
              /\ 0 <= exp' /\ exp' < requiredExp(level')
              /\ SumSeq([ i \in 1..Len(ret'.out) |-> ret'.out[i].levelsGained ])
                     = level' - level
              /\ TotalExp(level', exp') =
                     TotalExp(level, exp)
                       + SumSeq([ i \in 1..Len(ret'.out) |-> SaleExp(ret'.out[i].item) ])
      ]_vars

\* One victory took the player up several levels at once.
ExpAwardSettledWitness ==
    /\ ret.op = "fightEnemy"
    /\ ret.success
    /\ ret.out.levelsGained >= 2
    /\ exp < requiredExp(level)

\* C9: a fight whose chosen enemy, the one the Fight button was rendered
\* for, is no longer in the area's list is a no-op: no money, experience,
\* level or item is granted and no other enemy is fought or removed.
VanishedTargetNoOp ==
    [][ ( /\ ret'.op = "fightEnemy"
          /\ combatModal # << >>
          /\ ret'.arg[1] \in 1..Len(combatModal[1].listed)
          /\ EnemyByIdentity(CurrentEnemies, combatModal[1].listed, ret'.arg[1]) = << >> )
        => UNCHANGED coreVars
      ]_vars

\* The IDs of the items held.
HeldIds == { Holdings[i].ID : i \in 1..Len(Holdings) }

\* What a new item's ID must be, and what must become of the recycled list
\* and of the counter.
TakesNextId(new) ==
    IF recycled_ids # << >>
    THEN /\ new.ID = recycled_ids[Len(recycled_ids)]
         /\ recycled_ids' = SubSeq(recycled_ids, 1, Len(recycled_ids) - 1)
         /\ item_id_counter' = item_id_counter
    ELSE /\ new.ID = item_id_counter
         /\ item_id_counter' = item_id_counter + 1
         /\ recycled_ids' = recycled_ids

\* C8: an item created by itemGen or by enemyLoot takes the ID last put on
\* the recycled list when that list is not empty, and the list loses it;
\* otherwise it takes item_id_counter, which is then incremented.
IdAllocation ==
    [][ /\ ret'.op = "itemGen" => TakesNextId(ret'.out[1])
        /\ (ret'.op = "fightEnemy" /\ ret'.success /\ combatModal # << >>) =>
              IF ret'.out.drop # << >>
              THEN TakesNextId(ret'.out.drop[1])
              ELSE UNCHANGED << recycled_ids, item_id_counter >>
      ]_vars

\* Items 0, 1 and 2 were created, item 1 was sold, and the item created
\* next, a drop, has ID 1 while the counter still stands at 3.
IdAllocationWitness ==
    /\ ret.op = "fightEnemy"
    /\ ret.success
    /\ ret.out.drop # << >>
    /\ ret.out.drop[1].ID = 1
    /\ item_id_counter = 3
    /\ HeldIds = { 0, 1, 2 }
    /\ recycled_ids = << >>

(***************************************************************************)
(* Properties of the rolls.                                                *)
(***************************************************************************)
\* C11: every roll that rngGen (rarity and mold), generateEnemy and
\* enemyLoot (the mold of a drop) pass to getTier lies in
\* [1, floor(MAXIMUM_VALUE / max(1, multiplier))], and getTier never takes
\* its no-match fallback for it.
RollsInRange ==
    \A i \in 1..Len(ret.calls) :
        /\ 1 <= ret.calls[i].roll
        /\ ret.calls[i].roll <= ret.calls[i].limit
        /\ ret.calls[i].matched

(***************************************************************************)
(* Properties of the fight.                                                *)
(***************************************************************************)
\* The turn-by-turn loop and its closed form fightLoop end alike.
FightLoopClosedForm ==
    (probe # << >> /\ equipped # << >>
       /\ probe[1].status \in { "victory", "defeat", "unexpected" }) =>
        fightLoop(PlayerHealth, probe[1].enemy.health, equipped[1], probe[1].enemy)
            = [ end |-> probe[1].status, attacks |-> probe[1].attacks ]

\* A turn of the loop that ends the call.
FightEndStep ==
    /\ probe # << >> /\ probe' # << >>
    /\ probe[1].status = "running"
    /\ probe'[1].status # "running"

\* C12: a fight the player wins with a weapon of floor(Damage) = d against
\* an enemy of health h is won after exactly ceil(h / d) player attacks,
\* and the victory adds exactly enemy.cash to money and exactly enemy.exp
\* to the experience, counted before the level-ups are taken out of it.
VictoryCountAndReward ==
    [][ (FightEndStep /\ probe'[1].status = "victory") =>
            LET p == probe'[1]
                d == equipped[1].Damage \div 100
            IN  /\ p.attacks * d >= p.enemy.health
                /\ (p.attacks - 1) * d < p.enemy.health
                /\ ret'.out.attacks = p.attacks
                /\ money' = money + p.enemy.cash * Cent
                /\ TotalExp(level', exp') = TotalExp(level, exp) + p.enemy.exp * ExpUnit
      ]_vars

\* Damage 10 against health 25 was won with the third attack.
VictoryCountAndRewardWitness ==
    /\ probe # << >> /\ equipped # << >>
    /\ probe[1].status = "victory"
    /\ equipped[1].Damage \div 100 = 10
    /\ probe[1].enemy.health = 25
    /\ probe[1].attacks = 3
    /\ money = ENEMY_BASE_CASH * Cent

\* A call of fightEnemy on a generated weapon and a generated enemy.
GeneratedCall ==
    /\ probe # << >> /\ equipped # << >>
    /\ equipped[1] \in GeneratedWeapons
    /\ probe[1].enemy \in GeneratedEnemies

\* The call has returned a victory or a defeat.
FightDecided == probe # << >> /\ probe[1].status \in { "victory", "defeat" }

\* C13: every fight between a weapon made by itemGen or enemyLoot and an
\* enemy made by generateEnemy terminates, in a Victory or in a Defeat: the
\* loop does not run forever, and 'Combat ended unexpectedly' is never
\* returned.
FightTerminates ==
    /\ [](GeneratedCall => probe[1].status \in { "running", "victory", "defeat" })
    /\ (GeneratedCall ~> FightDecided)

\* A generated weapon beat a generated enemy with more than twenty
\* attacks.
FightTerminatesWitness ==
    /\ GeneratedCall
    /\ probe[1].status = "victory"
    /\ probe[1].attacks > 20

\* C14: when the equipped weapon's Defense is 0, an enemy turn takes
\* floor(enemy.damage / 1) from the player's health, a finite number: the
\* defense counts as at least 1 and nothing is divided by zero.
DefenseZeroGuarded ==
    [][ (probe # << >> /\ probe' # << >> /\ equipped # << >>
           /\ equipped[1].Defense = 0
           /\ probe'[1].attacks = probe[1].attacks + 1
           /\ probe'[1].status # "victory") =>
            probe'[1].playerHealth
                = Finite(probe[1].playerHealth.value - probe[1].enemy.damage)
      ]_vars

\* C15: a victory adds exactly one item, the drop, to item_storage when the
\* enemy was elite or the area is "Champions Hall", and none otherwise; a
\* defeat gives no money, no experience and no item and leaves the enemy
\* in its area's list.
LootOnlyWhenDue ==
    [][ FightEndStep =>
            LET p == probe'[1]
            IN  /\ p.status = "victory" =>
                     IF p.enemy.Elite \/ p.area = "Champions Hall"
                     THEN /\ Len(ret'.out.drop) = 1
                          /\ item_storage' = Append(item_storage, ret'.out.drop[1])
                     ELSE /\ ret'.out.drop = << >>
                          /\ item_storage' = item_storage
                /\ p.status = "defeat" =>
                     /\ UNCHANGED << money, exp, level, item_storage >>
                     /\ spawned_enemies' = spawned_enemies
                     /\ p.enemy \in Range(spawned_enemies'[p.area])
      ]_vars

\* An enemy that was not elite was beaten in Champions Hall and dropped an
\* item.
LootOnlyWhenDueWitness ==
    /\ probe # << >>
    /\ probe[1].status = "victory"
    /\ probe[1].area = "Champions Hall"
    /\ ~probe[1].enemy.Elite
    /\ Len(item_storage) = 1

\* C16: fightEnemy never throws: invoked while no weapon is equipped (the
\* weapon was unequipped after the enemy list was shown) it returns a
\* failure result and changes no state.
FightNeverThrows ==
    [][ (combatModal # << >> /\ equipped = << >> /\ ret'.op = "fightEnemy") =>
            /\ ret'.out.end # "threw"
            /\ ~ret'.success
            /\ UNCHANGED coreVars
      ]_vars

(***************************************************************************)
(* Properties of the expiry sweep.                                         *)
(***************************************************************************)
\* C17: an expiry sweep removes every enemy whose age, now - spawn_time, is
\* greater than or equal to its despawn_timer, an age exactly equal to the
\* timer included, and keeps every enemy whose age is smaller.
ExpirySweepAtTimer ==
    [][ ret'.op = "expirySweep" =>
            \A a \in DOMAIN spawned_enemies :
               \A i \in 1..Len(spawned_enemies[a]) :
                  LET e == spawned_enemies[a][i]
                  IN  IF now - e.spawn_time >= e.despawn_timer
                      THEN e \notin Range(spawned_enemies'[a])
                      ELSE e \in Range(spawned_enemies'[a])
      ]_vars

(***************************************************************************)
(* Properties of the routing of new items.                                 *)
(***************************************************************************)
\* C18: itemGen puts the new item in the sell area, with a 30 second timer
\* from now, when its combined odds are below the auto-sell threshold as
\* it is when the item is made, and in item_storage otherwise: in exactly
\* one of the two.
RoutedByThreshold ==
    [][ ret'.op = "itemGen" =>
            LET item == ret'.out[1]
                queued == { k \in 1..Len(sell_area') : sell_area'[k].item = item }
                stored == { k \in 1..Len(item_storage') : item_storage'[k] = item }
            IN  IF item.RNG < auto_sell_threshold * 10
                THEN /\ queued = { Len(sell_area) + 1 }
                     /\ Len(sell_area') = Len(sell_area) + 1
                     /\ SubSeq(sell_area', 1, Len(sell_area)) = sell_area
                     /\ sell_area'[Len(sell_area')].timer = 30
                     /\ sell_area'[Len(sell_area')].time_added = now
                     /\ stored = { }
                     /\ item_storage' = item_storage
                ELSE /\ stored = { Len(item_storage) + 1 }
                     /\ item_storage' = Append(item_storage, item)
                     /\ queued = { }
                     /\ sell_area' = sell_area
      ]_vars

\* With the threshold raised to 101 an item of odds 1 in 100 went to the
\* sell area, where one made at the threshold of 100 is in item_storage.
RoutedByThresholdWitness ==
    /\ ret.op = "itemGen"
    /\ auto_sell_threshold = 101
    /\ ret.out[1].RNG = 1000
    /\ \E k \in 1..Len(sell_area) : sell_area[k].item = ret.out[1]
    /\ \E k \in 1..Len(item_storage) : item_storage[k].RNG = 1000

(***************************************************************************)
(* Start of the game (src/game-ui.js:50-57, src/game-config.js:103-121,    *)
(* 533-563, GameSettings in src/PASSWORD_RESET_EMAIL_VARIABLES.md:93-107). *)
(* probe holds localStorage: the text under gameSettings_<user> and the    *)
(* text under gameData_<user>.  A text is absent, not JSON, or JSON for a  *)
(* value.  A JavaScript value is a record with its type t and, where it    *)
(* has one, its content v; an object has every field the program reads,    *)
(* the ones it lacks being undefined.  Where the program leaves a value    *)
(* that is not a number in player.level, player.exp or the threshold, the  *)
(* variable holds NotANumber, and so does a multiplier computed from it    *)
(* (NaN in the program).                                                   *)
(***************************************************************************)
JSUndefined == [ t |-> "undefined" ]
JSNull == [ t |-> "null" ]
JSNumber(n) == [ t |-> "number", v |-> n ]
JSString(str) == [ t |-> "string", v |-> str ]
JSArray(seq) == [ t |-> "array", v |-> seq ]
JSObject(fields) == [ t |-> "object", v |-> fields ]

\* typeof v === 'number', Array.isArray(v).
IsNumber(v) == v.t = "number"
IsArray(v) == v.t = "array"

\* The value converts to true.
Truthy(v) ==
    CASE v.t = "undefined" -> FALSE
      [] v.t = "null" -> FALSE
      [] v.t = "number" -> v.v # 0
      [] v.t = "string" -> v.v # ""
      [] OTHER -> TRUE

\* v || d.
OrElse(v, d) == IF Truthy(v) THEN v ELSE d

\* v.name for a v that is neither null nor undefined.
Field(v, name) ==
    IF v.t = "object" /\ name \in DOMAIN v.v THEN v.v[name] ELSE JSUndefined

\* What a numeric variable of the model holds for a value that is not a
\* number; no level, experience or threshold of the program is negative.
NotANumber == -1

\* What a numeric variable of the model holds for a value.
Held(v) == IF IsNumber(v) THEN v.v ELSE NotANumber

\* player.equipped: null and undefined are no weapon.
HeldEquipped(v) == IF v.t = "object" THEN << v.v >> ELSE << >>

\* The stored texts.
Absent == [ kind |-> "absent" ]
NotJSON == [ kind |-> "invalid" ]
JSONOf(value) == [ kind |-> "json", value |-> value ]

\* The thresholds a stored object has: none, a number, a string, zero.
StoredThresholds == { JSUndefined, JSNumber(50), JSString("abc"), JSNumber(0) }

\* The texts under gameSettings_<user>.
StoredSettings ==
    { Absent, NotJSON, JSONOf(JSNull) }
        \cup { JSONOf(JSObject([ auto_sell_threshold |-> th ])) : th \in StoredThresholds }

\* The players a stored game has: none, null, a player of level 3, an
\* object without fields, a player whose level is a string, a string.
StoredPlayers ==
    { JSUndefined, JSNull,
      JSObject([ level |-> JSNumber(3), exp |-> JSNumber(50 * ExpUnit), equipped |-> JSNull ]),
      JSObject([ level |-> JSUndefined, exp |-> JSUndefined, equipped |-> JSUndefined ]),
      JSObject([ level |-> JSString("abc"), exp |-> JSNumber(0), equipped |-> JSNull ]),
      JSString("abc") }

\* The other fields of a stored game: all lacking, all of their type, all
\* strings.
StoredRest ==
    { [ money |-> JSUndefined, item_storage |-> JSUndefined, recycled_ids |-> JSUndefined,
        mold_level |-> JSUndefined, luck_level |-> JSUndefined,
        item_id_counter |-> JSUndefined, sell_area |-> JSUndefined ],
      [ money |-> JSNumber(5 * Cent),
        item_storage |-> JSArray(<< CHOOSE w \in HandWeapons : w.Defense = 0 >>),
        recycled_ids |-> JSArray(<< >>),
        mold_level |-> JSNumber(2), luck_level |-> JSNumber(2),
        item_id_counter |-> JSNumber(1), sell_area |-> JSArray(<< >>) ],
      [ money |-> JSString("abc"), item_storage |-> JSString("abc"),
        recycled_ids |-> JSString("abc"), mold_level |-> JSString("abc"),
        luck_level |-> JSString("abc"), item_id_counter |-> JSString("abc"),
        sell_area |-> JSString("abc") ] }

\* The texts under gameData_<user>.
StoredGames ==
    { Absent, NotJSON, JSONOf(JSNull) }
        \cup { JSONOf(JSObject([ player |-> p, money |-> r.money,
                                 item_storage |-> r.item_storage,
                                 recycled_ids |-> r.recycled_ids,
                                 mold_level |-> r.mold_level,
                                 luck_level |-> r.luck_level,
                                 item_id_counter |-> r.item_id_counter,
                                 sell_area |-> r.sell_area,
                                 auto_sell_threshold |-> th ])) :
                 p \in StoredPlayers, r \in StoredRest,
                 th \in StoredThresholds \ { JSNumber(0) } }

\* An earlier session, or anything else, left the two texts.
LocalStorageSet ==
    /\ probe = << >>
    /\ \E s \in StoredSettings, g \in StoredGames :
         probe' = << [ settings |-> s, game |-> g ] >>
    /\ UNCHANGED << coreVars, auto_sell_threshold, now, pendingSell, combatModal,
                    nextUid, nextEid, nextEnemy, ret >>

\* GameSettings.loadSettings on a new GameSettings: the threshold it
\* leaves, or the exception it throws.
loadSettings(saved) ==
    CASE saved.kind = "absent" ->
           [ threw |-> "", threshold |-> JSNumber(DefaultAutoSell) ]
      [] saved.kind = "invalid" ->
           [ threw |-> "SyntaxError", threshold |-> JSNumber(DefaultAutoSell) ]
      [] saved.value.t \in { "null", "undefined" } ->
           [ threw |-> "TypeError", threshold |-> JSNumber(DefaultAutoSell) ]
      [] OTHER ->
           [ threw |-> "",
             threshold |-> OrElse(Field(saved.value, "auto_sell_threshold"),
                                  JSNumber(DefaultAutoSell)) ]

\* getDefaultGameData() with the threshold gameSettings holds.
getDefaultGameData(threshold) ==
    [ player |-> JSObject([ level |-> JSNumber(1), exp |-> JSNumber(0), equipped |-> JSNull ]),
      money |-> JSNumber(0),
      item_storage |-> JSArray(<< >>),
      recycled_ids |-> JSArray(<< >>),
      mold_level |-> JSNumber(1),
      luck_level |-> JSNumber(1),
      item_id_counter |-> JSNumber(0),
      sell_area |-> JSArray(<< >>),
      auto_sell_threshold |-> IF IsNumber(threshold) THEN threshold
                              ELSE JSNumber(DefaultAutoSell) ]

\* { ...defaultData, ...parsed }: a field parsed has replaces the default.
Spread(defaultData, parsed) ==
    [ f \in DOMAIN defaultData |->
        IF Field(parsed, f).t # "undefined" THEN Field(parsed, f) ELSE defaultData[f] ]

\* The multiplier recalculate() computes at a level.
MultiplierAt(L, lv) == IF lv = NotANumber THEN NotANumber ELSE MultiplierCurve(L, lv)

\* new GameCore(username): the fields the constructor sets.
NewGameCore ==
    /\ level' = 1
    /\ exp' = 0
    /\ equipped' = << >>
    /\ money' = 0
    /\ item_storage' = << >>
    /\ recycled_ids' = << >>
    /\ mold_level' = 1
    /\ luck_level' = 1
    /\ mold_cost' = MoldCostAt(1)
    /\ luck_cost' = LuckCostRecalcAt(1)
    /\ mold_mult' = MultiplierCurve(1, 1)
    /\ luck_multiplier' = MultiplierCurve(1, 1)
    /\ item_id_counter' = 0
    /\ sell_area' = << >>
    /\ spawned_enemies' = [ a \in AreaNames |-> << >> ]

\* initializeGame up to loadGame: new GameSettings, loadSettings, new
\* GameCore, loadGame.  An exception of loadSettings ends it in the catch
\* of line 79 before there is a new GameCore.  `browser` is what probe
\* holds afterwards.
StartGameThen(browser) ==
    /\ probe # << >>
    /\ LET settings == loadSettings(probe[1].settings)
           saved == probe[1].game
       IN  IF settings.threw # ""
           THEN /\ auto_sell_threshold' = Held(settings.threshold)
                /\ ret' = Result("initializeGame", << >>, FALSE, settings.threw)
                /\ UNCHANGED coreVars
           ELSE IF saved.kind # "json"
           THEN /\ auto_sell_threshold' = Held(settings.threshold)
                /\ ret' = Result("initializeGame", << >>, TRUE, "not loaded")
                /\ NewGameCore
           ELSE LET defaultData == getDefaultGameData(settings.threshold)
                    data == Spread(defaultData, saved.value)
                    player == OrElse(data.player, defaultData.player)
                    number(f) == IF IsNumber(data[f]) THEN data[f].v ELSE defaultData[f].v
                    array(f) == IF IsArray(data[f]) THEN data[f].v ELSE << >>
                    lv == Held(Field(player, "level"))
                IN  /\ level' = lv
                    /\ exp' = Held(Field(player, "exp"))
                    /\ equipped' = HeldEquipped(Field(player, "equipped"))
                    /\ money' = number("money")
                    /\ item_storage' = array("item_storage")
                    /\ recycled_ids' = array("recycled_ids")
                    /\ mold_level' = number("mold_level")
                    /\ luck_level' = number("luck_level")
                    /\ item_id_counter' = number("item_id_counter")
                    /\ sell_area' = array("sell_area")
                    /\ auto_sell_threshold' =
                          IF IsNumber(data.auto_sell_threshold)
                          THEN data.auto_sell_threshold.v
                          ELSE Held(settings.threshold)
                    /\ mold_cost' = MoldCostAt(number("mold_level"))
                    /\ luck_cost' = LuckCostRecalcAt(number("luck_level"))
                    /\ mold_mult' = MultiplierAt(number("mold_level"), lv)
                    /\ luck_multiplier' = MultiplierAt(number("luck_level"), lv)
                    /\ ret' = Result("initializeGame", << >>, TRUE, "loaded")
                    /\ spawned_enemies' = [ a \in AreaNames |-> << >> ]
    /\ probe' = << browser >>
    /\ UNCHANGED << now, pendingSell, combatModal, nextUid, nextEid, nextEnemy >>

\* The same where the start changes nothing beside the game.
StartGame == probe # << >> /\ StartGameThen(probe[1])

\* The first start of the game on a page.
InitializeGame ==
    /\ ret.op # "initializeGame"
    /\ StartGame

LoadNext ==
    \/ LocalStorageSet
    \/ InitializeGame

SpecLoad == GameInit /\ [][LoadNext]_vars

WellFormedPlayer(p) ==
    /\ p.t = "object"
    /\ IsNumber(Field(p, "level"))
    /\ IsNumber(Field(p, "exp"))

\* The stored text is JSON for an object.
StoredObject(saved) == saved.kind = "json" /\ saved.value.t = "object"

\* The field of the stored text, undefined where there is none.
StoredField(saved, name) ==
    IF StoredObject(saved) THEN Field(saved.value, name) ELSE JSUndefined

\* C20: whatever the stored settings and the stored game data are (absent,
\* not JSON, lacking fields, fields of the wrong type), the start of the
\* game throws nothing, and every field that is missing or malformed has
\* its default: level 1, exp 0, empty storage and sell area, threshold 100.
StartNeverFails ==
    ret.op = "initializeGame" =>
        LET settings == probe[1].settings
            game == probe[1].game
        IN  /\ ret.success
            /\ ~WellFormedPlayer(StoredField(game, "player")) => (level = 1 /\ exp = 0)
            /\ ~IsArray(StoredField(game, "item_storage")) => item_storage = << >>
            /\ ~IsArray(StoredField(game, "sell_area")) => sell_area = << >>
            /\ ( /\ ~IsNumber(StoredField(settings, "auto_sell_threshold"))
                 /\ ~IsNumber(StoredField(game, "auto_sell_threshold")) )
                   => auto_sell_threshold = DefaultAutoSell

(***************************************************************************)
(* Luck on its own: the maximum roll of rngGen (src/game-config.js:238-    *)
(* 241) under two luck multipliers, and the rolls of [1, maximum roll]     *)
(* that getTier resolves up to a row and beyond it.  Math.random is        *)
(* uniform, so the share of a set of rolls is its size over the maximum    *)
(* roll.                                                                   *)
(***************************************************************************)
\* The multipliers tried, in hundredths: the values updateLuckMult gives
\* for upgrade levels 1..20 at player levels 1 and 20 that are at
\* least 1.
LuckProbeLevels == { 1, 20 }
LuckMultipliers ==
    { m \in { MultiplierCurve(L, lv) : L \in 1..20, lv \in LuckProbeLevels } : m >= 100 }

Min(a, b) == IF a <= b THEN a ELSE b

\* The rolls of 1..maxRoll that resolve to one of the rows 1..k: the rolls
\* up to the threshold of row k (line 69; the thresholds ascend).
RollsUpTo(tiers, k, maxRoll) == Min(Threshold(tiers[k]), maxRoll)

\* The rolls of 1..maxRoll that resolve to a row after row k.
RollsBeyond(tiers, k, maxRoll) == maxRoll - RollsUpTo(tiers, k, maxRoll)

\* a / b < c / d for a, c >= 0 and b, d > 0, by the continued fractions
\* of the two sides: no product leaves 32 bits.
RECURSIVE FracLess(_, _, _, _)
FracLess(a, b, c, d) ==
    IF a \div b # c \div d THEN a \div b < c \div d
    ELSE IF c % d = 0 THEN FALSE
    ELSE IF a % b = 0 THEN TRUE
    ELSE FracLess(d, c % d, b, a % b)

\* Two luck multipliers, the smaller first, and the maximum roll of each;
\* they are kept in probe.
LuckProbe ==
    /\ \E t \in { "rarity", "mold" } :
         \E low \in LuckMultipliers, high \in LuckMultipliers :
            /\ low < high
            /\ probe' = << [ table |-> t, low |-> low, high |-> high,
                             maxLow |-> MaxRoll(low), maxHigh |-> MaxRoll(high) ] >>
            /\ ret' = Result("rngGen", << t, low, high >>, TRUE, << >>)
    /\ UNCHANGED << coreVars, auto_sell_threshold, now, pendingSell, combatModal,
                    nextUid, nextEid, nextEnemy >>

LuckNext == LuckProbe

SpecLuck == GameInit /\ [][LuckNext]_vars

\* The rolls RollsUpTo counts are the ones getTier resolves up to row k:
\* the last of them resolves to a row up to k, the next one to a later row.
RollsUpToIsGetTier ==
    probe # << >> =>
        LET tiers == TierTables[probe[1].table]
        IN  \A k \in 1..(Len(tiers) - 1) : \A maxRoll \in { probe[1].maxLow, probe[1].maxHigh } :
               LET last == RollsUpTo(tiers, k, maxRoll)
               IN  /\ getTier(last, tiers, 100).index <= k
                   /\ getTier(1, tiers, 100).index <= k
                   /\ last < maxRoll =>
                        /\ getTier(last + 1, tiers, 100).index > k
                        /\ getTier(maxRoll, tiers, 100).index > k

\* C21 as stated: a larger multiplier (both at least 1) strictly shrinks
\* the maximum roll, and for every row k but the last it strictly
\* increases the share of [1, maximum roll] that resolves to a row of
\* higher index than k.
LuckFavoursHigherIndex ==
    probe # << >> =>
        LET p == probe[1]
            tiers == TierTables[p.table]
        IN  /\ p.maxHigh < p.maxLow
            /\ \A k \in 1..(Len(tiers) - 1) :
                 FracLess(RollsBeyond(tiers, k, p.maxLow), p.maxLow,
                          RollsBeyond(tiers, k, p.maxHigh), p.maxHigh)

\* C21 amended: a larger multiplier (both at least 1) strictly shrinks the
\* maximum roll, and for every row k but the last the share of
\* [1, maximum roll] that resolves to row k or to a row of lower index (the
\* rarer rows, whose thresholds are lower) never decreases, and strictly
\* increases whenever the maximum roll under the smaller multiplier is
\* above the threshold of row k.
LuckFavoursLowerIndex ==
    probe # << >> =>
        LET p == probe[1]
            tiers == TierTables[p.table]
        IN  /\ p.maxHigh < p.maxLow
            /\ \A k \in 1..(Len(tiers) - 1) :
                 LET upLow == RollsUpTo(tiers, k, p.maxLow)
                     upHigh == RollsUpTo(tiers, k, p.maxHigh)
                 IN  /\ ~FracLess(upHigh, p.maxHigh, upLow, p.maxLow)
                     /\ p.maxLow > Threshold(tiers[k]) =>
                          FracLess(upLow, p.maxLow, upHigh, p.maxHigh)

\* Under the smaller multiplier some rolls resolve to the last row of the
\* rarity table, under the larger one none does; the share of the rows
\* before it has grown to the whole range.
LuckFavoursLowerIndexWitness ==
    /\ probe # << >>
    /\ probe[1].table = "rarity"
    /\ LET k == Len(RARITY_TIERS) - 1
       IN  /\ probe[1].maxLow > Threshold(RARITY_TIERS[k])
           /\ probe[1].maxHigh <= Threshold(RARITY_TIERS[k])
           /\ getTier(probe[1].maxLow, RARITY_TIERS, probe[1].low).index = Len(RARITY_TIERS)
           /\ getTier(probe[1].maxHigh, RARITY_TIERS, probe[1].high).index < Len(RARITY_TIERS)

(***************************************************************************)
(* The server (src/server.js).  In the specifications of the server probe  *)
(* holds the database and the session store: one record with a field per   *)
(* table (a set of rows), the last AUTOINCREMENT id of each table, the     *)
(* user of the browser's session (0: no session), the requests whose       *)
(* callbacks have not all run, and the history of the successful password  *)
(* resets, and the number of requests the behaviour still follows.  A      *)
(* request comes from the browser, with its session cookie, or             *)
(* from a client that sends no cookie and keeps none.  bcrypt.hash is the  *)
(* identity on the model's passwords and bcrypt.compare equality.  ret     *)
(* holds the last request and its response: out is << status, body >>,     *)
(* calls the SQL statements the request ran.                               *)
(***************************************************************************)
MaxUsers == 2        \* accounts registered in one behaviour
MaxRows == 1         \* rows a client adds to each of its tables
MaxCodes == 2        \* reset codes created in one behaviour

Tables ==
    { "users", "calendar_tasks", "user_points", "shop_purchases", "game_data",
      "game_settings", "email_verification_codes", "password_reset_codes" }

\* initializeDatabase (lines 45-173): the tables exist and are empty.
\* foreign_keys is SQLite's setting of the same name, which decides
\* whether ON DELETE CASCADE is enforced; the server never sets it, so it
\* is whatever the SQLite build defaults to.
EmptyDatabase(foreignKeys, requests) ==
    [ requests |-> requests,
      rows |-> [ t \in Tables |-> { } ],
      lastId |-> [ t \in Tables |-> 0 ],
      foreign_keys |-> foreignKeys,
      session |-> 0,
      pending |-> << >>,
      resets |-> << >> ]

InitializeDatabase(requests) ==
    /\ probe = << >>
    /\ \E foreignKeys \in BOOLEAN : probe' = << EmptyDatabase(foreignKeys, requests) >>
    /\ UNCHANGED << coreVars, auto_sell_threshold, now, pendingSell, combatModal,
                    nextUid, nextEid, nextEnemy, ret >>

\* The rows of a table, and the database with a table replaced.
Rows(db, t) == db.rows[t]
WithRows(db, t, rows) == [ db EXCEPT !.rows[t] = rows ]

\* INSERT into a table with an AUTOINCREMENT id.
Insert(db, t, row) ==
    [ db EXCEPT !.rows[t] = @ \cup { [ id |-> db.lastId[t] + 1 ] @@ row },
                !.lastId[t] = @ + 1 ]

\* The tables whose rows reference users(id) ON DELETE CASCADE.
UserTables ==
    { "calendar_tasks", "user_points", "shop_purchases", "game_data",
      "game_settings", "password_reset_codes" }

\* DELETE FROM users WHERE id = ?: with foreign keys enforced the rows that
\* reference the user go too.
DeleteUser(db, userId) ==
    [ db EXCEPT !.rows =
        [ t \in Tables |->
            IF t = "users" THEN { r \in db.rows[t] : r.id # userId }
            ELSE IF db.foreign_keys /\ t \in UserTables
                 THEN { r \in db.rows[t] : r.user_id # userId }
                 ELSE db.rows[t] ] ]

\* A response: res.status(status).json(body).
Response(status, body) == << status, body >>
Error(status, message) == Response(status, [ error |-> message ])

\* What a handler leaves: the database, the user of the caller's session,
\* the response and the statements it ran.
HandledSession(db, sessionUser, response, calls) ==
    [ db |-> db, session |-> sessionUser, response |-> response, calls |-> calls ]

\* The same for a handler that leaves the session as it is.
Handled(db, sessionUser, response, calls) ==
    HandledSession(db, sessionUser, response, calls)

\* The strings a client sends, with their lengths.
Usernames == { "ann", "al" }
Passwords == { "secret", "short" }
NewPasswords == { "hunter22", "short" }
Emails == { "ann@mail.example", "bob@mail.example" }
Codes == { "111111", "222222" }
\* The reset codes Math.random gives.
GeneratedCodes == { "111111" }
Length(str) ==
    CASE str = "ann" -> 3
      [] str = "al" -> 2
      [] str = "secret" -> 6
      [] str = "hunter22" -> 8
      [] str = "short" -> 5
      [] OTHER -> 16

\* POST /api/register (lines 187-251).
Register(db, sessionUser, username, password) ==
    IF Length(username) < 3 \/ Length(username) > 20
    THEN Handled(db, sessionUser, Error(400, "Username must be between 3 and 20 characters"), << >>)
    ELSE IF Length(password) < 6
    THEN Handled(db, sessionUser, Error(400, "Password must be at least 6 characters long"), << >>)
    ELSE IF \E u \in Rows(db, "users") : u.username = username
    THEN Handled(db, sessionUser, Error(400, "Username already exists"), << "SELECT users" >>)
    ELSE LET withUser == Insert(db, "users",
                                [ username |-> username, password_hash |-> password,
                                  email |-> "", email_verified |-> FALSE ])
             lastID == withUser.lastId["users"]
             withPoints == Insert(withUser, "user_points", [ user_id |-> lastID, points |-> 0 ])
             withSettings == Insert(withPoints, "game_settings",
                                    [ user_id |-> lastID,
                                      auto_sell_threshold |-> DefaultAutoSell,
                                      storage_sort |-> "Price" ])
         IN  HandledSession(withSettings, lastID,
                     Response(200, [ success |-> TRUE, userId |-> lastID, username |-> username ]),
                     << "SELECT users", "INSERT users", "INSERT user_points",
                        "INSERT game_settings" >>)

\* POST /api/login (lines 254-287).
Login(db, sessionUser, username, password) ==
    LET found == { u \in Rows(db, "users") : u.username = username }
    IN  IF found = { } \/ \A u \in found : u.password_hash # password
        THEN Handled(db, sessionUser, Error(401, "Invalid username or password"),
                     << "SELECT users" >>)
        ELSE LET user == CHOOSE u \in found : TRUE
             IN  HandledSession(db, user.id,
                         Response(200, [ success |-> TRUE, userId |-> user.id,
                                         username |-> user.username ]),
                         << "SELECT users" >>)

\* POST /api/logout (lines 290-297).
Logout(db, sessionUser) ==
    HandledSession(db, 0, Response(200, [ success |-> TRUE ]), << >>)

\* GET /api/auth/status (lines 300-310).
AuthStatus(db, sessionUser) ==
    Handled(db, sessionUser, Response(200, [ authenticated |-> sessionUser # 0 ]), << >>)

\* requireAuth (lines 176-182) in front of a handler.
RequireAuth(db, sessionUser, handled) ==
    IF sessionUser # 0
    THEN handled
    ELSE Handled(db, sessionUser, Error(401, "Authentication required"), << >>)

\* The rows of a table that belong to a user.
RowsOf(db, t, userId) == { r \in Rows(db, t) : r.user_id = userId }

\* GET /api/user (lines 315-326).
GetUser(db, sessionUser) ==
    LET found == { u \in Rows(db, "users") : u.id = sessionUser }
    IN  IF found = { }
        THEN Handled(db, sessionUser, Error(404, "User not found"), << "SELECT users" >>)
        ELSE Handled(db, sessionUser, Response(200, CHOOSE u \in found : TRUE),
                     << "SELECT users" >>)

\* PUT /api/user/email (lines 329-339).
PutUserEmail(db, sessionUser, email, emailVerified) ==
    LET updated == { IF u.id = sessionUser
                     THEN [ u EXCEPT !.email = email, !.email_verified = emailVerified ]
                     ELSE u : u \in Rows(db, "users") }
    IN  Handled(WithRows(db, "users", updated), sessionUser,
                Response(200, [ success |-> TRUE ]), << "UPDATE users" >>)

\* DELETE /api/user (lines 342-350).
DeleteAccountRoute(db, sessionUser) ==
    HandledSession(DeleteUser(db, sessionUser), 0,
                   Response(200, [ success |-> TRUE ]), << "DELETE users" >>)

\* GET of the caller's rows of a table: /api/calendar/tasks (lines 355-363),
\* /api/points (412-420), /api/shop/purchases (438-446), /api/game/data
\* (464-476), /api/game/settings (494-502).
GetRows(db, sessionUser, t) ==
    Handled(db, sessionUser, Response(200, RowsOf(db, t, sessionUser)), << "SELECT " \o t >>)

\* POST /api/calendar/tasks (lines 366-380) and POST /api/shop/purchases
\* (lines 449-459): a row of the caller is added.
PostRow(db, sessionUser, t, row) ==
    Handled(Insert(db, t, [ user_id |-> sessionUser ] @@ row), sessionUser,
            Response(200, [ success |-> TRUE, id |-> db.lastId[t] + 1 ]),
            << "INSERT " \o t >>)

\* PUT /api/calendar/tasks/:id (lines 383-394).
PutTask(db, sessionUser, taskId, completed) ==
    LET updated == { IF r.id = taskId /\ r.user_id = sessionUser
                     THEN [ r EXCEPT !.completed = completed ]
                     ELSE r : r \in Rows(db, "calendar_tasks") }
    IN  Handled(WithRows(db, "calendar_tasks", updated), sessionUser,
                Response(200, [ success |-> TRUE ]), << "UPDATE calendar_tasks" >>)

\* DELETE /api/calendar/tasks/:id (lines 397-407).
DeleteTask(db, sessionUser, taskId) ==
    Handled(WithRows(db, "calendar_tasks",
                     { r \in Rows(db, "calendar_tasks") :
                         ~(r.id = taskId /\ r.user_id = sessionUser) }),
            sessionUser, Response(200, [ success |-> TRUE ]), << "DELETE calendar_tasks" >>)

\* PUT /api/points (lines 423-433).
PutPoints(db, sessionUser, points) ==
    LET updated == { IF r.user_id = sessionUser THEN [ r EXCEPT !.points = points ] ELSE r :
                       r \in Rows(db, "user_points") }
    IN  Handled(WithRows(db, "user_points", updated), sessionUser,
                Response(200, [ success |-> TRUE ]), << "UPDATE user_points" >>)

\* PUT /api/game/data (lines 479-489): INSERT OR REPLACE on the unique
\* user_id.
PutGameData(db, sessionUser, data) ==
    LET without == WithRows(db, "game_data",
                            { r \in Rows(db, "game_data") : r.user_id # sessionUser })
    IN  Handled(Insert(without, "game_data", [ user_id |-> sessionUser, data |-> data ]),
                sessionUser, Response(200, [ success |-> TRUE ]),
                << "INSERT OR REPLACE game_data" >>)

\* PUT /api/game/settings (lines 505-515).
PutGameSettings(db, sessionUser, threshold, sort) ==
    LET updated == { IF r.user_id = sessionUser
                     THEN [ r EXCEPT !.auto_sell_threshold = threshold, !.storage_sort = sort ]
                     ELSE r : r \in Rows(db, "game_settings") }
    IN  Handled(WithRows(db, "game_settings", updated), sessionUser,
                Response(200, [ success |-> TRUE ]), << "UPDATE game_settings" >>)

\* The lifetimes of a verification code and of a reset code, in seconds
\* (lines 522, 591).  The clock stands in the specifications of the server:
\* every code is within its lifetime.
VerificationLifetime == 10 * 60
ResetLifetime == 30 * 60

\* POST /api/email/verification-code (lines 520-531).
PostVerificationCode(db, sessionUser, email, code) ==
    Handled(Insert(db, "email_verification_codes",
                   [ email |-> email, code |-> code, expires_at |-> now + VerificationLifetime ]),
            sessionUser, Response(200, [ success |-> TRUE ]),
            << "INSERT email_verification_codes" >>)

\* The row a query ORDER BY created_at DESC LIMIT 1 returns: the newest.
Newest(found) == CHOOSE r \in found : \A other \in found : other.id <= r.id

\* POST /api/email/verify (lines 534-550).
PostVerify(db, sessionUser, email, code) ==
    LET found == { r \in Rows(db, "email_verification_codes") :
                     r.email = email /\ r.code = code /\ r.expires_at > now }
    IN  IF found # { }
        THEN Handled(WithRows(db, "email_verification_codes",
                              Rows(db, "email_verification_codes") \ { Newest(found) }),
                     sessionUser, Response(200, [ success |-> TRUE, valid |-> TRUE ]),
                     << "SELECT email_verification_codes", "DELETE email_verification_codes" >>)
        ELSE Handled(db, sessionUser, Response(200, [ success |-> FALSE, valid |-> FALSE ]),
                     << "SELECT email_verification_codes" >>)

\* POST /api/email/cleanup-codes (lines 553-560).
PostCleanupCodes(db, sessionUser) ==
    Handled(WithRows(db, "email_verification_codes",
                     { r \in Rows(db, "email_verification_codes") : ~(r.expires_at < now) }),
            sessionUser, Response(200, [ success |-> TRUE ]),
            << "DELETE email_verification_codes" >>)

\* The user of a reset request: a user with that email, verified.
VerifiedUsers(db, email) ==
    { u \in Rows(db, "users") : u.email = email /\ u.email_verified }

\* POST /api/password/reset-request (lines 565-617) with the code that
\* Math.random gives.
PostResetRequest(db, sessionUser, email, resetCode) ==
    IF VerifiedUsers(db, email) = { }
    THEN Handled(db, sessionUser,
                 Response(200, [ success |-> TRUE,
                                 message |-> "If that email is registered and verified, a password reset code has been sent." ]),
                 << "SELECT users" >>)
    ELSE LET user == CHOOSE u \in VerifiedUsers(db, email) : \A o \in VerifiedUsers(db, email) : u.id <= o.id
             invalidated ==
                 WithRows(db, "password_reset_codes",
                          { IF r.user_id = user.id /\ ~r.used THEN [ r EXCEPT !.used = TRUE ] ELSE r :
                              r \in Rows(db, "password_reset_codes") })
         IN  Handled(Insert(invalidated, "password_reset_codes",
                            [ user_id |-> user.id, email |-> email, code |-> resetCode,
                              expires_at |-> now + ResetLifetime, used |-> FALSE ]),
                     sessionUser,
                     Response(200, [ success |-> TRUE,
                                     message |-> "Password reset code sent to your email! Please check your inbox (and spam folder).",
                                     code |-> resetCode ]),
                     << "SELECT users", "UPDATE password_reset_codes",
                        "INSERT password_reset_codes" >>)

\* The query of verify-reset-code and of reset (lines 631-636, 670-675):
\* the codes of that email that are unused and alive, joined with their
\* user.
LiveResetCodes(db, email, code) ==
    { r \in Rows(db, "password_reset_codes") :
        /\ r.email = email
        /\ r.code = code
        /\ ~r.used
        /\ r.expires_at > now
        /\ \E u \in Rows(db, "users") : u.id = r.user_id }

\* POST /api/password/verify-reset-code (lines 620-651).
PostVerifyResetCode(db, sessionUser, email, code) ==
    IF LiveResetCodes(db, email, code) = { }
    THEN Handled(db, sessionUser, Response(200, [ valid |-> FALSE ]),
                 << "SELECT password_reset_codes" >>)
    ELSE Handled(db, sessionUser,
                 Response(200, [ valid |-> TRUE,
                                 userId |-> Newest(LiveResetCodes(db, email, code)).user_id ]),
                 << "SELECT password_reset_codes" >>)

\* POST /api/password/reset up to `await bcrypt.hash` (lines 654-690): the
\* request is rejected, or it waits for the hash with the row it found.
ResetLookup(db, sessionUser, email, code, newPassword) ==
    IF Length(newPassword) < 6
    THEN Handled(db, sessionUser, Error(400, "Password must be at least 6 characters long"), << >>)
    ELSE IF LiveResetCodes(db, email, code) = { }
    THEN Handled(db, sessionUser, Error(400, "Invalid or expired reset code"),
                 << "SELECT password_reset_codes" >>)
    ELSE Handled([ db EXCEPT !.pending =
                      Append(@, [ session |-> sessionUser,
                                  row |-> Newest(LiveResetCodes(db, email, code)),
                                  newPassword |-> newPassword ]) ],
                 sessionUser, Response(0, "pending"), << "SELECT password_reset_codes" >>)

\* POST /api/password/reset from the hash on (lines 690-703): the password
\* is written and the code marked used.  resets is the history of the
\* codes (row ids) with which a reset has succeeded.
ResetFinish(db, request) ==
    LET written == WithRows(db, "users",
                            { IF u.id = request.row.user_id
                              THEN [ u EXCEPT !.password_hash = request.newPassword ]
                              ELSE u : u \in Rows(db, "users") })
        marked == WithRows(written, "password_reset_codes",
                           { IF r.id = request.row.id THEN [ r EXCEPT !.used = TRUE ] ELSE r :
                               r \in Rows(db, "password_reset_codes") })
    IN  [ marked EXCEPT !.resets = Append(@, request.row.id) ]

(***************************************************************************)
(* Requests.                                                               *)
(***************************************************************************)
\* The user of the session a request carries.
SessionUser(db, withCookie) == IF withCookie THEN db.session ELSE 0

\* The request is answered: the database and the browser's session are as
\* the handler left them, ret holds the response.  The first argument in
\* ret is the user of the request's session.
Respond(route, arg, withCookie, handled) ==
    /\ probe[1].requests > 0
    /\ probe' = << [ handled.db EXCEPT
                       !.session = IF withCookie THEN handled.session ELSE @,
                       !.requests = @ - 1 ] >>
    /\ ret' = ResultCalls(route, << SessionUser(probe[1], withCookie) >> \o arg,
                          handled.response[1] = 200,
                          handled.response, handled.calls)
    /\ UNCHANGED << coreVars, auto_sell_threshold, now, pendingSell, combatModal,
                    nextUid, nextEid, nextEnemy >>

\* The values a client sends beside names, passwords, emails and codes.
TaskIds == { 1 }
PointValues == { 10 }
ThresholdValues == { 50 }

PostRegister(limit) ==
    /\ probe # << >>
    /\ probe[1].lastId["users"] < limit
    /\ \E withCookie \in BOOLEAN, username \in Usernames, password \in Passwords :
         Respond("POST /api/register", << username, password >>, withCookie,
                 Register(probe[1], SessionUser(probe[1], withCookie), username, password))

PostLogin ==
    /\ probe # << >>
    /\ \E withCookie \in BOOLEAN, username \in Usernames, password \in Passwords \cup NewPasswords :
         Respond("POST /api/login", << username, password >>, withCookie,
                 Login(probe[1], SessionUser(probe[1], withCookie), username, password))

PostLogout ==
    /\ probe # << >>
    /\ \E withCookie \in BOOLEAN :
         Respond("POST /api/logout", << >>, withCookie,
                 Logout(probe[1], SessionUser(probe[1], withCookie)))

GetAuthStatus ==
    /\ probe # << >>
    /\ \E withCookie \in BOOLEAN :
         Respond("GET /api/auth/status", << >>, withCookie,
                 AuthStatus(probe[1], SessionUser(probe[1], withCookie)))

GetUserRoute ==
    /\ probe # << >>
    /\ \E withCookie \in BOOLEAN :
         LET user == SessionUser(probe[1], withCookie)
         IN  Respond("GET /api/user", << >>, withCookie,
                     RequireAuth(probe[1], user, GetUser(probe[1], user)))

PutUserEmailRoute ==
    /\ probe # << >>
    /\ \E withCookie \in BOOLEAN, email \in Emails, emailVerified \in BOOLEAN :
         LET user == SessionUser(probe[1], withCookie)
         IN  Respond("PUT /api/user/email", << email, emailVerified >>, withCookie,
                     RequireAuth(probe[1], user,
                                 PutUserEmail(probe[1], user, email, emailVerified)))

DeleteUserRoute ==
    /\ probe # << >>
    /\ \E withCookie \in BOOLEAN :
         LET user == SessionUser(probe[1], withCookie)
         IN  Respond("DELETE /api/user", << >>, withCookie,
                     RequireAuth(probe[1], user, DeleteAccountRoute(probe[1], user)))

\* The tables a GET of the caller's rows reads, by route.
GetRoutes ==
    [ calendar_tasks |-> "GET /api/calendar/tasks",
      user_points |-> "GET /api/points",
      shop_purchases |-> "GET /api/shop/purchases",
      game_data |-> "GET /api/game/data",
      game_settings |-> "GET /api/game/settings" ]

GetRowsRoute ==
    /\ probe # << >>
    /\ \E withCookie \in BOOLEAN, t \in DOMAIN GetRoutes :
         LET user == SessionUser(probe[1], withCookie)
         IN  Respond(GetRoutes[t], << >>, withCookie,
                     RequireAuth(probe[1], user, GetRows(probe[1], user, t)))

PostTaskRoute ==
    /\ probe # << >>
    /\ probe[1].lastId["calendar_tasks"] < MaxRows
    /\ \E withCookie \in BOOLEAN :
         LET user == SessionUser(probe[1], withCookie)
         IN  Respond("POST /api/calendar/tasks", << >>, withCookie,
                     RequireAuth(probe[1], user,
                                 PostRow(probe[1], user, "calendar_tasks",
                                         [ completed |-> FALSE ])))

PutTaskRoute ==
    /\ probe # << >>
    /\ \E withCookie \in BOOLEAN, taskId \in TaskIds, completed \in BOOLEAN :
         LET user == SessionUser(probe[1], withCookie)
         IN  Respond("PUT /api/calendar/tasks/:id", << taskId, completed >>, withCookie,
                     RequireAuth(probe[1], user, PutTask(probe[1], user, taskId, completed)))

DeleteTaskRoute ==
    /\ probe # << >>
    /\ \E withCookie \in BOOLEAN, taskId \in TaskIds :
         LET user == SessionUser(probe[1], withCookie)
         IN  Respond("DELETE /api/calendar/tasks/:id", << taskId >>, withCookie,
                     RequireAuth(probe[1], user, DeleteTask(probe[1], user, taskId)))

PutPointsRoute ==
    /\ probe # << >>
    /\ \E withCookie \in BOOLEAN, points \in PointValues :
         LET user == SessionUser(probe[1], withCookie)
         IN  Respond("PUT /api/points", << points >>, withCookie,
                     RequireAuth(probe[1], user, PutPoints(probe[1], user, points)))

PostPurchaseRoute ==
    /\ probe # << >>
    /\ probe[1].lastId["shop_purchases"] < MaxRows
    /\ \E withCookie \in BOOLEAN :
         LET user == SessionUser(probe[1], withCookie)
         IN  Respond("POST /api/shop/purchases", << >>, withCookie,
                     RequireAuth(probe[1], user,
                                 PostRow(probe[1], user, "shop_purchases",
                                         [ purchase_type |-> "theme", level |-> 1 ])))

PutGameDataRoute ==
    /\ probe # << >>
    /\ probe[1].lastId["game_data"] < MaxRows
    /\ \E withCookie \in BOOLEAN :
         LET user == SessionUser(probe[1], withCookie)
         IN  Respond("PUT /api/game/data", << >>, withCookie,
                     RequireAuth(probe[1], user, PutGameData(probe[1], user, "saved")))

PutGameSettingsRoute ==
    /\ probe # << >>
    /\ \E withCookie \in BOOLEAN, threshold \in ThresholdValues :
         LET user == SessionUser(probe[1], withCookie)
         IN  Respond("PUT /api/game/settings", << threshold >>, withCookie,
                     RequireAuth(probe[1], user,
                                 PutGameSettings(probe[1], user, threshold, "Rarity")))

PostVerificationCodeRoute ==
    /\ probe # << >>
    /\ probe[1].lastId["email_verification_codes"] < MaxRows
    /\ \E withCookie \in BOOLEAN, email \in Emails, code \in Codes :
         Respond("POST /api/email/verification-code", << email, code >>, withCookie,
                 PostVerificationCode(probe[1], SessionUser(probe[1], withCookie), email, code))

PostVerifyRoute ==
    /\ probe # << >>
    /\ \E withCookie \in BOOLEAN, email \in Emails, code \in Codes :
         Respond("POST /api/email/verify", << email, code >>, withCookie,
                 PostVerify(probe[1], SessionUser(probe[1], withCookie), email, code))

PostCleanupCodesRoute ==
    /\ probe # << >>
    /\ \E withCookie \in BOOLEAN :
         Respond("POST /api/email/cleanup-codes", << >>, withCookie,
                 PostCleanupCodes(probe[1], SessionUser(probe[1], withCookie)))

PostResetRequestRoute(limit) ==
    /\ probe # << >>
    /\ probe[1].lastId["password_reset_codes"] < limit
    /\ \E withCookie \in BOOLEAN, email \in Emails, resetCode \in GeneratedCodes :
         Respond("POST /api/password/reset-request", << email >>, withCookie,
                 PostResetRequest(probe[1], SessionUser(probe[1], withCookie), email, resetCode))

PostVerifyResetCodeRoute ==
    /\ probe # << >>
    /\ \E withCookie \in BOOLEAN, email \in Emails, code \in Codes :
         Respond("POST /api/password/verify-reset-code", << email, code >>, withCookie,
                 PostVerifyResetCode(probe[1], SessionUser(probe[1], withCookie), email, code))

\* The requests to /api/password/reset that may wait for their hash at
\* one time.
MaxPending == 2

PostResetRoute(limit) ==
    /\ probe # << >>
    /\ Len(probe[1].pending) < limit
    /\ \E withCookie \in BOOLEAN, email \in Emails, code \in Codes, newPassword \in NewPasswords :
         Respond("POST /api/password/reset", << email, code, newPassword >>, withCookie,
                 ResetLookup(probe[1], SessionUser(probe[1], withCookie), email, code,
                             newPassword))

\* The hash of one of the waiting requests is ready: its callback runs.
PostResetHashed ==
    /\ probe # << >>
    /\ \E i \in 1..Len(probe[1].pending) :
         LET request == probe[1].pending[i]
             db == [ probe[1] EXCEPT !.pending = RemoveAt(@, i) ]
         IN  /\ probe' = << ResetFinish(db, request) >>
             /\ ret' = ResultCalls("POST /api/password/reset",
                                   << request.session, request.row.id >>, TRUE,
                                   Response(200, [ success |-> TRUE ]),
                                   << "UPDATE users", "UPDATE password_reset_codes" >>)
    /\ UNCHANGED << coreVars, auto_sell_threshold, now, pendingSell, combatModal,
                    nextUid, nextEid, nextEnemy >>

(***************************************************************************)
(* The API on its own: every route, called with and without the session    *)
(* cookie.                                                                 *)
(***************************************************************************)
\* The requests of one behaviour.
MaxApiRequests == 4

ApiNext ==
    \/ InitializeDatabase(MaxApiRequests)
    \/ PostRegister(1)
    \/ PostLogin
    \/ PostLogout
    \/ GetAuthStatus
    \/ GetUserRoute
    \/ PutUserEmailRoute
    \/ DeleteUserRoute
    \/ GetRowsRoute
    \/ PostTaskRoute
    \/ PutTaskRoute
    \/ DeleteTaskRoute
    \/ PutPointsRoute
    \/ PostPurchaseRoute
    \/ PutGameDataRoute
    \/ PutGameSettingsRoute
    \/ PostVerificationCodeRoute
    \/ PostVerifyRoute
    \/ PostCleanupCodesRoute
    \/ PostResetRequestRoute(1)
    \/ PostVerifyResetCodeRoute
    \/ PostResetRoute(1)
    \/ PostResetHashed

SpecApi == GameInit /\ [][ApiNext]_vars

\* The routes that are meant to be open.
OpenRoutes == { "POST /api/register", "POST /api/login" }

\* C22: a request without a session to any route other than register and
\* login is answered 401, runs no statement on the database and leaves
\* every table as it was.
RequiresSession ==
    [][ ( /\ probe # << >>
          /\ probe' # probe
          /\ ret'.arg[1] = 0
          /\ ret'.op \notin OpenRoutes )
        => ( /\ ret'.out[1] = 401
             /\ ret'.calls = << >>
             /\ probe'[1].rows = probe[1].rows ) ]_vars

(***************************************************************************)
(* Password reset on its own: an account with a verified email, reset      *)
(* codes requested for it, and requests to /api/password/reset whose       *)
(* callbacks interleave.                                                   *)
(***************************************************************************)
\* The requests of one behaviour: register, verify the email, ask for a
\* code, and two resets.
MaxResetRequests == 5

ResetNext ==
    \/ InitializeDatabase(MaxResetRequests)
    \/ PostRegister(1)
    \/ PutUserEmailRoute
    \/ PostResetRequestRoute(MaxCodes)
    \/ PostResetRoute(MaxPending)
    \/ PostResetHashed

SpecReset == GameInit /\ [][ResetNext]_vars

\* C29: no reset code is behind two successful password resets, however
\* the callbacks of the requests interleave.
ResetCodeUsedOnce ==
    probe # << >> =>
        \A i, j \in 1..Len(probe[1].resets) :
            i # j => probe[1].resets[i] # probe[1].resets[j]

\* The response to a reset request for an email of no verified user
\* (lines 582-586).
UnknownEmailResponse ==
    Response(200, [ success |-> TRUE,
                    message |-> "If that email is registered and verified, a password reset code has been sent." ])

\* C30: the response to POST /api/password/reset-request is the same
\* whether or not the email belongs to a registered, verified user: it is
\* always the response given for an unknown email.
ResetRequestOpaque ==
    ret.op = "POST /api/password/reset-request" => ret.out = UnknownEmailResponse

(***************************************************************************)
(* Saving (src/game-config.js:501-530).  probe holds localStorage as at    *)
(* the start of the game, and beside it `saved`: the fields of the game    *)
(* and the clock as they were when saveGame last ran.                      *)
(***************************************************************************)
\* JSON.stringify of a numeric field: a value that is not a number is not
\* written as one (NaN becomes null).
Stringified(n) == IF n = NotANumber THEN JSNull ELSE JSNumber(n)

\* JSON.parse(localStorage.getItem(key)) || {} with its catch (lines
\* 503-508): the fields already stored.
ExistingData(saved) ==
    IF saved.kind = "json" /\ saved.value.t = "object" THEN saved.value.v ELSE << >>

\* The fields saveGame writes (lines 512-522).
WrittenData ==
    [ player |-> JSObject([ level |-> Stringified(level),
                            exp |-> Stringified(exp),
                            equipped |-> IF equipped = << >> THEN JSNull
                                         ELSE JSObject(equipped[1]) ]),
      money |-> Stringified(money),
      item_storage |-> JSArray(item_storage),
      recycled_ids |-> JSArray(recycled_ids),
      mold_level |-> Stringified(mold_level),
      luck_level |-> Stringified(luck_level),
      auto_sell_threshold |-> Stringified(auto_sell_threshold),
      item_id_counter |-> Stringified(item_id_counter),
      sell_area |-> JSArray(sell_area) ]

\* { ...written, ...existingData }: the stored fields over the game's.
MergedDataStale(existingData, written) ==
    [ f \in DOMAIN written |->
        IF f \in DOMAIN existingData /\ existingData[f].t # "undefined"
        THEN existingData[f] ELSE written[f] ]

\* mergedData (lines 510-523): { ...existingData, player: ..., ... }, the
\* game's fields over the stored ones.
MergedData(existingData, written) ==
    [ f \in DOMAIN written \cup DOMAIN existingData |->
        IF f \in DOMAIN written THEN written[f] ELSE existingData[f] ]

\* The game as saveGame finds it.
Snapshot ==
    [ level |-> level, exp |-> exp, equipped |-> equipped, money |-> money,
      item_storage |-> item_storage, recycled_ids |-> recycled_ids,
      mold_level |-> mold_level, luck_level |-> luck_level,
      item_id_counter |-> item_id_counter, sell_area |-> sell_area, now |-> now ]

\* The texts a browser holds when the page opens.
Browser(settingsText, gameText) ==
    [ settings |-> settingsText, game |-> gameText, saved |-> << >> ]

\* What an earlier session left under gameData_<user>: nothing, a text that
\* is not JSON, or a game.
GamesBefore ==
    { Absent, NotJSON,
      JSONOf(JSObject(
        [ player |-> JSObject([ level |-> JSNumber(3), exp |-> JSNumber(50 * ExpUnit),
                                equipped |-> JSNull ]),
          money |-> JSNumber(5 * Cent),
          item_storage |-> JSArray(<< >>),
          recycled_ids |-> JSArray(<< >>),
          mold_level |-> JSNumber(2), luck_level |-> JSNumber(2),
          item_id_counter |-> JSNumber(1), sell_area |-> JSArray(<< >>),
          auto_sell_threshold |-> JSNumber(50) ])) }

OpenBrowser ==
    /\ probe = << >>
    /\ \E g \in GamesBefore : probe' = << Browser(Absent, g) >>
    /\ UNCHANGED << coreVars, auto_sell_threshold, now, pendingSell, combatModal,
                    nextUid, nextEid, nextEnemy, ret >>

\* What localStorage holds after saveGame(), with gameSettings.saveSettings
\* (lines 525-528).
SavedBrowser(browser) ==
    [ browser EXCEPT
        !.game = JSONOf(JSObject(MergedData(ExistingData(browser.game), WrittenData))),
        !.settings = JSONOf(JSObject(
            [ auto_sell_threshold |-> Stringified(auto_sell_threshold) ])),
        !.saved = << Snapshot >> ]

SaveGame ==
    /\ probe # << >>
    /\ probe' = << SavedBrowser(probe[1]) >>
    /\ ret' = Result("saveGame", << >>, TRUE, TRUE)
    /\ UNCHANGED << coreVars, auto_sell_threshold, now, pendingSell, combatModal,
                    nextUid, nextEid, nextEnemy >>

(***************************************************************************)
(* Saving and loading: the item and sell-area timers, equipping, upgrades, *)
(* the clock, saveGame and the start of the game on the saved texts.       *)
(***************************************************************************)
SaveNext ==
    \/ OpenBrowser
    \/ ItemGenOf(MaxItems, RarityOdds)
    \/ \E itemId \in ItemIds : EquipItem(itemId)
    \/ ProcessSellArea
    \/ AdvanceBy(InventoryClockSteps, SellTimer)
    \/ \E v \in InputValues : PurchaseMoldUpgrades(v)
    \/ SaveGame
    \/ StartGame

SpecSave == GameInit /\ [][SaveNext]_vars

\* C28: after saveGame, the start of the game on a new GameCore restores
\* the saved player (level, exp, equipped), money, item_storage,
\* recycled_ids, mold_level, luck_level, item_id_counter and sell_area,
\* the entries with the time_added they were saved with.
SaveLoadRoundTrip ==
    (ret.op = "initializeGame" /\ probe[1].saved # << >>) =>
        LET s == probe[1].saved[1]
        IN  /\ level = s.level
            /\ exp = s.exp
            /\ equipped = s.equipped
            /\ money = s.money
            /\ item_storage = s.item_storage
            /\ recycled_ids = s.recycled_ids
            /\ mold_level = s.mold_level
            /\ luck_level = s.luck_level
            /\ item_id_counter = s.item_id_counter
            /\ sell_area = s.sell_area

\* A game with an equipped weapon and a sell-area entry was saved, and
\* loaded when the clock had moved on.
SaveLoadRoundTripWitness ==
    /\ ret.op = "initializeGame"
    /\ probe[1].saved # << >>
    /\ equipped # << >>
    /\ sell_area # << >>
    /\ sell_area[1].time_added < now
    /\ probe[1].saved[1].now < now

(***************************************************************************)
(* An account and its game: registration and deletion on the server, and   *)
(* in the browser the game of whoever is logged in, saved to localStorage  *)
(* under the username (README.md:1970-2005 deleteAccount calls DELETE      *)
(* /api/user, clears the session and stops the loops).  probe holds the    *)
(* database and the browser's texts in one record.                         *)
(***************************************************************************)
\* The requests of one behaviour: register, delete, register again.
MaxAccountRequests == 3

OpenAccount ==
    /\ probe = << >>
    /\ \E foreignKeys \in BOOLEAN :
         probe' = << EmptyDatabase(foreignKeys, MaxAccountRequests) @@ Browser(Absent, Absent) >>
    /\ UNCHANGED << coreVars, auto_sell_threshold, now, pendingSell, combatModal,
                    nextUid, nextEid, nextEnemy, ret >>

\* getCurrentUser() is set: the browser holds a session.
LoggedIn == probe # << >> /\ probe[1].session # 0

AccountNext ==
    \/ OpenAccount
    \/ PostRegister(MaxUsers)
    \/ DeleteUserRoute
    \/ LoggedIn /\ StartGame
    \/ LoggedIn /\ ItemGenOf(MaxItems, RarityOdds)
    \/ LoggedIn /\ SaveGame

SpecAccount == GameInit /\ [][AccountNext]_vars

\* The game of getDefaultGameData and the constructor.
DefaultGame ==
    /\ level = 1
    /\ exp = 0
    /\ equipped = << >>
    /\ money = 0
    /\ item_storage = << >>
    /\ recycled_ids = << >>
    /\ mold_level = 1
    /\ luck_level = 1
    /\ item_id_counter = 0
    /\ sell_area = << >>

\* C23: once DELETE /api/user has succeeded no row of that user remains in
\* any table, and a game started right after a successful registration
\* (the first of a username, or one after the account of that name was
\* deleted) starts from the default state.
DeletionForgets ==
    [][ /\ ( ret'.op = "DELETE /api/user" /\ ret'.out[1] = 200 /\ ret' # ret )
           => \A t \in UserTables :
                 \A r \in probe'[1].rows[t] : r.user_id # ret'.arg[1]
        /\ ( /\ ret.op = "POST /api/register"
             /\ ret.out[1] = 200
             /\ ret'.op = "initializeGame" )
           => DefaultGame' ]_vars

(***************************************************************************)
(* The game page (README.md:2008-2104 showPage, src/game-ui.js:28-113,     *)
(* 804-809, src/game-config.js:566-616).  probe holds, beside the texts of *)
(* localStorage, the active page, the ids of the elements inside the game  *)
(* page, the GameCore instances made so far with their three interval      *)
(* handles (0 for null), the instance the global gameCore names (0 for     *)
(* null) and the intervals the browser runs.  The game variables are the   *)
(* fields of the instance gameCore names; an instance it no longer names   *)
(* is followed by its intervals only.                                      *)
(***************************************************************************)
\* GameCore instances made in one behaviour.
MaxCores == 2

\* The ids of the elements buildGameUI writes into the game page (lines
\* 109-220); the page's container has a class and no id.
GamePageIds ==
    { "player-stats-display", "btn-storage", "btn-sell-area", "btn-upgrades",
      "btn-areas", "btn-equip", "btn-settings", "game-main-display",
      "storage-modal", "storage-display", "sell-area-modal", "sell-area-display",
      "upgrades-modal", "upgrades-display", "areas-modal", "areas-display",
      "equip-modal", "equip-display", "settings-modal", "settings-display",
      "combat-modal", "combat-display", "notification-modal",
      "notification-message", "notification-ok-btn", "confirmation-modal",
      "confirmation-message", "confirmation-yes-btn", "confirmation-no-btn" }

Pages == { "calendar-page", "game-page" }

\* The loops whose handle startGameLoops keeps, by the field that keeps it.
HandleOf ==
    [ itemSpawnInterval |-> "item",
      enemySpawnInterval |-> "enemy",
      sellAreaInterval |-> "sell" ]

\* A logged-in user's page before the game was shown.
OpenPage ==
    /\ probe = << >>
    /\ probe' = << Browser(Absent, Absent) @@
                   [ page |-> "calendar-page", ids |-> { }, cores |-> << >>,
                     gameCore |-> 0, intervals |-> { }, nextInterval |-> 1 ] >>
    /\ UNCHANGED << coreVars, auto_sell_threshold, now, pendingSell, combatModal,
                    nextUid, nextEid, nextEnemy, ret >>

\* startGameLoops() of instance k (lines 566-600): four setInterval calls,
\* the handles of the first three kept in the instance.
StartGameLoops(b, k) ==
    LET n == b.nextInterval
    IN  [ b EXCEPT
            !.cores[k] = [ itemSpawnInterval |-> n, enemySpawnInterval |-> n + 1,
                           sellAreaInterval |-> n + 2, started |-> TRUE ],
            !.intervals = @ \cup { [ id |-> n, core |-> k, loop |-> "item" ],
                                   [ id |-> n + 1, core |-> k, loop |-> "enemy" ],
                                   [ id |-> n + 2, core |-> k, loop |-> "sell" ],
                                   [ id |-> n + 3, core |-> k, loop |-> "expiry" ] },
            !.nextInterval = n + 4 ]

\* stopGameLoops() of instance k (lines 603-616): clearInterval of each
\* handle that is not null, and the handle set to null.
StopGameLoops(b, k) ==
    [ b EXCEPT
        !.intervals = { t \in @ : \A h \in DOMAIN HandleOf :
                                     b.cores[k][h] = 0 \/ t.id # b.cores[k][h] },
        !.cores[k] = [ itemSpawnInterval |-> 0, enemySpawnInterval |-> 0,
                       sellAreaInterval |-> 0, started |-> FALSE ] ]

\* cleanupGame() (game-ui.js:804-809).
CleanupGame(b) ==
    IF b.gameCore # 0 THEN SavedBrowser(StopGameLoops(b, b.gameCore)) ELSE b

\* initializeGameUI beside the game's fields (game-ui.js:50-76): the new
\* instance becomes gameCore, buildGameUI rewrites the game page,
\* startGameLoops, and the auto-save interval.  Where loadSettings throws,
\* the catch writes the error page.
InitializedUI(b) ==
    IF loadSettings(b.settings).threw # ""
    THEN [ b EXCEPT !.ids = { } ]
    ELSE LET k == Len(b.cores) + 1
             made == [ b EXCEPT
                         !.cores = Append(@, [ itemSpawnInterval |-> 0,
                                               enemySpawnInterval |-> 0,
                                               sellAreaInterval |-> 0,
                                               started |-> FALSE ]),
                         !.gameCore = k,
                         !.ids = GamePageIds ]
             looping == StartGameLoops(made, k)
         IN  [ looping EXCEPT
                 !.intervals = @ \cup { [ id |-> looping.nextInterval, core |-> 0,
                                          loop |-> "autosave" ] },
                 !.nextInterval = @ + 1 ]

\* showPage(pageId) of a logged-in user.
ShowPage(pageId) ==
    /\ probe # << >>
    /\ LET b == probe[1]
           cleaned == IF b.page = "game-page" /\ pageId # "game-page"
                      THEN CleanupGame(b) ELSE b
           shown == [ cleaned EXCEPT !.page = pageId ]
       IN  IF pageId = "game-page" /\ "game-container" \notin shown.ids
           THEN /\ Len(b.cores) < MaxCores
                /\ StartGameThen(InitializedUI(shown))
           ELSE /\ probe' = << shown >>
                /\ ret' = Result("showPage", << pageId >>, TRUE, << >>)
                /\ UNCHANGED << coreVars, auto_sell_threshold, now, pendingSell,
                                combatModal, nextUid, nextEid, nextEnemy >>

\* The browser runs an interval of the instance gameCore names.
Runs(loop) ==
    /\ probe # << >>
    /\ \E t \in probe[1].intervals : t.core = probe[1].gameCore /\ t.loop = loop

ItemLoop == Runs("item") /\ ItemGenOf(MaxItems, RarityOdds)
EnemyLoop == Runs("enemy") /\ SpawnEnemies
SellLoop == Runs("sell") /\ ProcessSellArea
ExpiryLoop == Runs("expiry") /\ ExpirySweep

\* The auto-save interval of game-ui.js:72-76.
AutoSave ==
    /\ probe # << >>
    /\ \E t \in probe[1].intervals : t.loop = "autosave"
    /\ probe[1].gameCore # 0
    /\ SaveGame

\* The browser runs an interval of an instance gameCore no longer names:
\* the callback works on that instance's fields.
OrphanLoop ==
    /\ probe # << >>
    /\ \E t \in probe[1].intervals :
         /\ t.core \notin { 0, probe[1].gameCore }
         /\ ret' = Result("interval", << t.core, t.loop >>, TRUE, << >>)
    /\ UNCHANGED << coreVars, auto_sell_threshold, now, pendingSell, combatModal,
                    nextUid, nextEid, nextEnemy, probe >>

PageNext ==
    \/ OpenPage
    \/ \E pageId \in Pages : ShowPage(pageId)
    \/ ItemLoop
    \/ EnemyLoop
    \/ SellLoop
    \/ ExpiryLoop
    \/ AutoSave
    \/ OrphanLoop

SpecPage == GameInit /\ [][PageNext]_vars

\* The instances that have an interval running.
RunningCores == { t.core : t \in probe[1].intervals } \ { 0 }

\* C24: at most one GameCore instance has timers running.
OneRunningCore == probe # << >> => Cardinality(RunningCores) <= 1

\* C25: an instance whose loops were stopped, and not started since, has no
\* interval left for the browser to run.
StoppedLoopsStay ==
    probe # << >> =>
        \A k \in 1..Len(probe[1].cores) :
            ~probe[1].cores[k].started => k \notin RunningCores

\* C26: money is never negative, whatever sales and mold and luck upgrades
\* happen, with or without showUpgrades' recalculate in between.
MoneyNeverNegative == money >= 0

\* The IDs of the items held: in item_storage, in sell_area and equipped,
\* one for each place an item is held in.
LiveIds ==
    [ i \in 1..Len(item_storage) |-> item_storage[i].ID ]
        \o [ i \in 1..Len(sell_area) |-> sell_area[i].item.ID ]
        \o [ i \in 1..Len(equipped) |-> equipped[i].ID ]

\* No value occurs twice in the sequence.
Distinct(seq) == \A i, j \in 1..Len(seq) : i # j => seq[i] # seq[j]

\* C27: the IDs of the items held are pairwise distinct, none of them is in
\* recycled_ids, recycled_ids holds no ID twice, and every ID held or
\* recycled is below item_id_counter.
ItemIdsConsistent ==
    /\ Distinct(LiveIds)
    /\ \A i \in 1..Len(LiveIds) : LiveIds[i] \notin Range(recycled_ids)
    /\ Distinct(recycled_ids)
    /\ \A id \in Range(LiveIds) \cup Range(recycled_ids) : id < item_id_counter

=============================================================================
